---------------------------- MODULE Spec2Model ----------------------------
(***************************************************************************)
(* Model of the submission content-extraction pipeline of the classroom    *)
(* grader: Grader._extract_submission_content and its three handlers       *)
(* (src/core/grader.py), Grader.process_assignment, and the Drive provider *)
(* DriveService.download_file_content (src/services/drive_api.py).         *)
(*                                                                         *)
(* Strings are sequences of tokens, so that joining, prefixing and         *)
(* splitting are real operations.  A Python Optional[str] is a record      *)
(* [some, val]: None is [some |-> FALSE], "" is Some(<<>>).                *)
(***************************************************************************)
EXTENDS Integers, Sequences, FiniteSets, TLC

\* ------------------------------------------------------------------ bounds
\* longest student attachment list of a submission
MaxAtt == 2
\* longest list returned by list_submissions
MaxSubs == 2

\* --------------------------------------------------------- Python values
None == [some |-> FALSE, val |-> <<>>]
Some(s) == [some |-> TRUE, val |-> s]
\* Python truthiness of an Optional[str]
Truthy(o) == o.some /\ o.val # <<>>

\* key absent from a dict / value None, for fields that hold one token
Absent == "None"

RECURSIVE Join(_, _)
\* sep.join(parts), parts a sequence of token sequences
Join(sep, parts) ==
    IF parts = <<>> THEN <<>>
    ELSE IF Len(parts) = 1 THEN parts[1]
    ELSE parts[1] \o <<sep>> \o Join(sep, Tail(parts))

RECURSIVE SeqsUpTo(_, _)
\* all sequences over S of length 0..n
SeqsUpTo(S, n) ==
    IF n = 0 THEN {<<>>}
    ELSE LET shorter == SeqsUpTo(S, n - 1)
         IN  shorter \cup {Append(s, x) : s \in {t \in shorter : Len(t) = n - 1}, x \in S}

\* separator of the successful fragments, grader.py:230 and :169
SEP == "\n\n---\n\n"
\* separator of the error sub-messages, grader.py:233
NL == "\n"

\* ------------------------------------------------------- Drive provider
\* MIME types for Google Workspace documents and their export equivalents
GOOGLE_DOCS_MIME_TYPES ==
    [m \in {"application/vnd.google-apps.document",
            "application/vnd.google-apps.spreadsheet",
            "application/vnd.google-apps.presentation"} |->
        IF m = "application/vnd.google-apps.spreadsheet" THEN "text/csv" ELSE "text/plain"]

\* original_mime_type.startswith('application/vnd.google-apps')
IsGoogleApps(m) ==
    m \in {"application/vnd.google-apps.document",
           "application/vnd.google-apps.spreadsheet",
           "application/vnd.google-apps.presentation",
           "application/vnd.google-apps.form",
           "application/vnd.google-apps.drawing"}

\* mime_type.startswith("text/")
IsTextMime(m) == m \in {"text/plain", "text/csv", "text/html"}

\* Exception types that retry_on_exception is told to retry for Drive
RETRYABLE_DRIVE_ERRORS == {"HttpError", "TimeoutError", "ConnectionError"}
\* max_attempts of the Drive decorators
DriveMaxAttempts == 3

\* The remote Drive: what files().get(), export_media and get_media answer
\* for each file id.  meta/media: "ok", an HTTP status of an HttpError, or
\* "unexpected" (any other exception type).  mimeType Absent: the metadata
\* carries no mimeType.
DriveFileIds ==
    {"f_txt", "f_latin", "f_utf8", "f_doc", "f_sheet", "f_slides", "f_png",
     "f_pdf", "f_nomime", "f_empty", "f_emptydoc", "f_form", "f_drawing",
     "f_404", "f_403", "f_500", "f_metaboom", "f_dl404", "f_dl403",
     "f_dl500", "f_dlboom", "f_docdl403", "f_emptypng", "f_emptynomime"}

DriveWorld(id) ==
    LET F(meta, mime, media, bytes) ==
            [meta |-> meta, mimeType |-> mime, media |-> media, bytes |-> bytes]
    IN CASE id = "f_txt"      -> F("ok", "text/plain", "ok", <<65>>)
         [] id = "f_latin"    -> F("ok", "text/plain", "ok", <<66, 233>>)
         [] id = "f_utf8"     -> F("ok", "text/html", "ok", <<195, 169>>)
         [] id = "f_doc"      -> F("ok", "application/vnd.google-apps.document", "ok", <<66>>)
         [] id = "f_sheet"    -> F("ok", "application/vnd.google-apps.spreadsheet", "ok", <<65, 66>>)
         [] id = "f_slides"   -> F("ok", "application/vnd.google-apps.presentation", "ok", <<66, 65>>)
         [] id = "f_png"      -> F("ok", "image/png", "ok", <<233, 65>>)
         [] id = "f_pdf"      -> F("ok", "application/pdf", "ok", <<65>>)
         [] id = "f_nomime"   -> F("ok", Absent, "ok", <<65>>)
         [] id = "f_empty"    -> F("ok", "text/plain", "ok", <<>>)
         [] id = "f_emptydoc" -> F("ok", "application/vnd.google-apps.document", "ok", <<>>)
         [] id = "f_emptypng" -> F("ok", "image/png", "ok", <<>>)
         [] id = "f_emptynomime" -> F("ok", Absent, "ok", <<>>)
         [] id = "f_form"     -> F("ok", "application/vnd.google-apps.form", "ok", <<65>>)
         [] id = "f_drawing"  -> F("ok", "application/vnd.google-apps.drawing", "ok", <<65>>)
         [] id = "f_404"      -> F("404", Absent, "ok", <<>>)
         [] id = "f_403"      -> F("403", Absent, "ok", <<>>)
         [] id = "f_500"      -> F("500", Absent, "ok", <<>>)
         [] id = "f_metaboom" -> F("unexpected", Absent, "ok", <<>>)
         [] id = "f_dl404"    -> F("ok", "text/plain", "404", <<>>)
         [] id = "f_dl403"    -> F("ok", "image/png", "403", <<>>)
         [] id = "f_dl500"    -> F("ok", "text/plain", "500", <<>>)
         [] id = "f_dlboom"   -> F("ok", "text/plain", "unexpected", <<>>)
         [] id = "f_docdl403" -> F("ok", "application/vnd.google-apps.document", "403", <<>>)
         [] OTHER             -> F("404", Absent, "404", <<>>)

\* lines 89-113: what leaves the body of get_file_metadata once the request
\* req met the remote answer w (every exception is wrapped in APIError)
MetadataOutcome(file_id, w, req) ==
    IF w.meta = "ok"
    THEN [exc |-> "none", msg |-> <<>>, mimeType |-> w.mimeType, requests |-> req]
    ELSE IF w.meta = "unexpected"
    THEN [exc |-> "APIError",
          msg |-> <<"Unexpected error getting file metadata", "(Service: drive)">>,
          mimeType |-> Absent, requests |-> req]
    ELSE IF w.meta = "404"
    THEN [exc |-> "APIError",
          msg |-> <<"File not found (404) with ID:", file_id,
                    "(Service: drive, Status Code: 404)">>,
          mimeType |-> Absent, requests |-> req]
    ELSE [exc |-> "APIError",
          msg |-> <<"Failed to get metadata for file", file_id, w.meta,
                    "(Service: drive, Status Code:", w.meta, ")">>,
          mimeType |-> Absent, requests |-> req]

\* One run of the body of DriveService.get_file_metadata
GetFileMetadataBody(file_id) ==
    MetadataOutcome(file_id, DriveWorld(file_id),
                    <<[api |-> "files.get", fileId |-> file_id, mimeType |-> Absent]>>)

RECURSIVE Repeat(_, _)
\* s concatenated n times
Repeat(s, n) == IF n = 0 THEN <<>> ELSE s \o Repeat(s, n - 1)

\* the outcome of a body that ran attempts times with the same outcome
Retried(body, attempts) == [body EXCEPT !.requests = Repeat(body.requests, attempts)]

\* retry_on_exception around a body whose outcome is the same on every
\* attempt: the body runs again only while it raises a listed exception,
\* max_attempts times in all; the last outcome is the call's outcome.
RetryOnException(body, exceptions, max_attempts) ==
    Retried(body, IF body.exc \in exceptions THEN max_attempts ELSE 1)

\* DriveService.get_file_metadata as callers see it (decorated)
GetFileMetadata(file_id) ==
    RetryOnException(GetFileMetadataBody(file_id), RETRYABLE_DRIVE_ERRORS, DriveMaxAttempts)

\* a variant with two branches only: every type that is not exported is
\* downloaded raw
ExportOrGetMedia(original_mime_type) ==
    IF original_mime_type \in DOMAIN GOOGLE_DOCS_MIME_TYPES THEN "export" ELSE "get_media"

\* Which request download_file_content builds for a MIME type:
\* "export", "unsupported" (raise, no request) or "get_media".
DownloadBranch(original_mime_type) ==
    IF original_mime_type \in DOMAIN GOOGLE_DOCS_MIME_TYPES THEN "export"
    ELSE IF original_mime_type # Absent /\ IsGoogleApps(original_mime_type) THEN "unsupported"
    ELSE "get_media"

\* lines 141-202: what leaves the body of download_file_content, given the
\* metadata outcome, the branch taken and the request built
DownloadOutcome(file_id, w, metadata, branch, target_mime_type, request) ==
    LET R(exc, msg, mime, bytes, reqs) ==
            [exc |-> exc, msg |-> msg, mime |-> mime, bytes |-> bytes,
             requests |-> metadata.requests \o reqs]
    IN  IF metadata.exc # "none"
        THEN \* APIError from get_file_metadata falls into 'except Exception'
             R("ContentExtractionError",
               <<"Unexpected error downloading/exporting file", file_id, ":">> \o metadata.msg,
               Absent, <<>>, <<>>)
        ELSE IF branch = "unsupported"
        THEN R("ContentExtractionError",
               <<"Unsupported Google Workspace type for direct download:", metadata.mimeType>>,
               Absent, <<>>, <<>>)
        ELSE IF w.media = "ok"
        THEN R("none", <<>>, target_mime_type, w.bytes, request)
        ELSE IF w.media = "unexpected"
        THEN R("ContentExtractionError",
               <<"Unexpected error downloading/exporting file", file_id, ":", "boom">>,
               Absent, <<>>, request)
        ELSE IF w.media = "404"
        THEN R("APIError",
               <<"File not found (404) for download/export:", file_id,
                 "(Service: drive, Status Code: 404)">>,
               Absent, <<>>, request)
        ELSE IF w.media = "403"
        THEN R("APIError",
               <<"Permission denied (403) downloading/exporting file", file_id,
                 "(Service: drive, Status Code: 403)">>,
               Absent, <<>>, request)
        ELSE R("APIError",
               <<"Failed to download/export file", file_id, w.media,
                 "(Service: drive, Status Code:", w.media, ")">>,
               Absent, <<>>, request)

\* the export or download request for a branch and its target MIME type
DownloadRequest(file_id, branch, target_mime_type) ==
    IF branch = "export"
    THEN <<[api |-> "files.export_media", fileId |-> file_id, mimeType |-> target_mime_type]>>
    ELSE <<[api |-> "files.get_media", fileId |-> file_id, mimeType |-> Absent]>>

\* target_mime_type: the export format of a Workspace document, else the
\* file's own MIME type
TargetMimeType(original_mime_type, branch) ==
    IF branch = "export" THEN GOOGLE_DOCS_MIME_TYPES[original_mime_type]
    ELSE original_mime_type

\* lines 145-164 for the branch taken
DownloadBranched(file_id, w, metadata, branch) ==
    DownloadOutcome(file_id, w, metadata, branch,
                    TargetMimeType(metadata.mimeType, branch),
                    DownloadRequest(file_id, branch, TargetMimeType(metadata.mimeType, branch)))

\* lines 142-143: the branch follows from the metadata's mimeType
DownloadWithMetadata(file_id, w, metadata) ==
    DownloadBranched(file_id, w, metadata, DownloadBranch(metadata.mimeType))

\* One run of the body of DriveService.download_file_content
DownloadFileContentBody(file_id) ==
    DownloadWithMetadata(file_id, DriveWorld(file_id), GetFileMetadata(file_id))

\* DriveService.download_file_content as callers see it (decorated)
DownloadFileContent(file_id) ==
    RetryOnException(DownloadFileContentBody(file_id), RETRYABLE_DRIVE_ERRORS, DriveMaxAttempts)

\* ------------------------------------------------------------ decoding
\* the character of a code point, as a token
Chr(cp) ==
    CASE cp = 65 -> "A" [] cp = 66 -> "B" [] cp = 233 -> "e-acute"
      [] cp = 195 -> "A-tilde" [] cp = 169 -> "copyright"
      [] OTHER -> "U+other"

IsContinuation(b) == b >= 128 /\ b <= 191

RECURSIVE DecodeUtf8(_)
\* bytes.decode('utf-8'): [ok, text]; ok FALSE is UnicodeDecodeError
DecodeUtf8(bytes) ==
    IF bytes = <<>> THEN [ok |-> TRUE, text |-> <<>>]
    ELSE LET b == bytes[1]
             width == IF b < 128 THEN 1
                      ELSE IF b >= 194 /\ b <= 223 THEN 2
                      ELSE IF b >= 224 /\ b <= 239 THEN 3
                      ELSE 0
             wellFormed ==
                 /\ width > 0
                 /\ Len(bytes) >= width
                 /\ \A j \in 2..width : IsContinuation(bytes[j])
             cp == IF width = 1 THEN b
                   ELSE IF width = 2 THEN (b - 192) * 64 + (bytes[2] - 128)
                   ELSE (b - 224) * 4096 + (bytes[2] - 128) * 64 + (bytes[3] - 128)
         IN  IF ~wellFormed THEN [ok |-> FALSE, text |-> <<>>]
             ELSE LET rest == DecodeUtf8(SubSeq(bytes, width + 1, Len(bytes)))
                  IN  IF rest.ok THEN [ok |-> TRUE, text |-> <<Chr(cp)>> \o rest.text]
                      ELSE rest

\* bytes.decode('latin-1'): every byte is its own code point, never fails
DecodeLatin1(bytes) == [j \in 1..Len(bytes) |-> Chr(bytes[j])]

\* ---------------------------------------------------------- attachments
\* An attachment is a dict; keys is the set of its top-level keys and the
\* fields of an absent key are unused.  Inner fields: Absent = key missing.
\* URLs are sequences of path segments (the text between slashes).
NoDriveFile == [id |-> Absent, title |-> Absent]
NoQuery == <<>>
NoResponseUrl == [segs |-> <<>>, query |-> NoQuery]
NoForm == [formUrl |-> <<>>, responseUrl |-> NoResponseUrl, title |-> Absent]
NoLink == [url |-> <<>>, title |-> Absent]

DriveAtt(id, title) ==
    [keys |-> {"driveFile"}, driveFile |-> [id |-> id, title |-> title],
     form |-> NoForm, link |-> NoLink]
FormAtt(formUrl, responseUrl, title) ==
    [keys |-> {"form"}, driveFile |-> NoDriveFile,
     form |-> [formUrl |-> formUrl, responseUrl |-> responseUrl, title |-> title],
     link |-> NoLink]
LinkAtt(url, title) ==
    [keys |-> {"link"}, driveFile |-> NoDriveFile, form |-> NoForm,
     link |-> [url |-> url, title |-> title]]
\* a YouTube video: none of the three recognised keys
VideoAtt == [keys |-> {"youtubeVideo"}, driveFile |-> NoDriveFile, form |-> NoForm, link |-> NoLink]

\* dict.get(key, default) for a one-token field
GetOr(v, default) == IF v = Absent THEN default ELSE v

\* index of the first "/d/": a segment "d" with a slash on both sides; 0 if none
FirstSlashDSlash(segs) ==
    LET hits == {i \in 2..(Len(segs) - 1) : segs[i] = "d"}
    IN  IF hits = {} THEN 0 ELSE CHOOSE i \in hits : \A j \in hits : i <= j

\* re.search(r'/d/([^/]+)', form_url).group(1), Absent when there is no match
ParseFormId(segs) ==
    LET hits == {i \in 2..(Len(segs) - 1) : segs[i] = "d" /\ segs[i + 1] # ""}
    IN  IF hits = {} THEN Absent
        ELSE segs[(CHOOSE i \in hits : \A j \in hits : i <= j) + 1]

\* '/viewresponse?id=' in response_url
HasViewResponseId(u) ==
    /\ u.segs # <<>>
    /\ u.segs[Len(u.segs)] = "viewresponse"
    /\ u.query # <<>>
    /\ u.query[1].k = "id"

\* response_url.split('id=')[1].split('&')[0]
TargetResponseId(u) == u.query[1].v

\* ------------------------------------------------------- Forms provider
\* The remote Forms service: what forms().get() and responses().list()
\* answer for each form id ("ok", an HTTP status, or "unexpected").
Item(itemId, questionId, title, options, correct) ==
    [itemId |-> itemId, questionId |-> questionId, title |-> title,
     options |-> options, correct |-> correct]
Response(responseId, email, answers) ==
    [responseId |-> responseId, respondentEmail |-> email, answers |-> answers]
Answer(qid, values) == [qid |-> qid, values |-> values]

QuizItems ==
    <<Item("i1", "q1", "Capital?", <<"Paris", "Rome">>, <<"Paris">>),
      Item("i2", Absent, "Why?", <<>>, <<>>)>>

QuizResponses ==
    <<Response("r1", "a@x.com", <<Answer("q1", <<"Paris">>), Answer("i2", <<"because">>)>>),
      Response("r2", "b@x.com", <<Answer("q1", <<"Rome">>)>>),
      Response("r3", Absent, <<>>)>>

FormsWorld(id) ==
    LET F(get, list, title, items, responses) ==
            [get |-> get, list |-> list, title |-> title, items |-> items,
             responses |-> responses]
    IN CASE id = "FORM1"     -> F("ok", "ok", "Quiz", QuizItems, QuizResponses)
         [] id = "FORM_ONE"  -> F("ok", "ok", Absent, <<>>, <<QuizResponses[1]>>)
         [] id = "FORM_NONE" -> F("ok", "ok", "Quiz", QuizItems, <<>>)
         [] id = "FORM_BAD"  -> F("ok", "ok", "Quiz",
                                  <<Item(Absent, "q1", "Capital?", <<>>, <<>>)>>, QuizResponses)
         [] id = "FORM_403"  -> F("403", "ok", Absent, <<>>, <<>>)
         [] id = "FORM_L500" -> F("ok", "500", "Quiz", QuizItems, <<>>)
         [] id = "FORM_BOOM" -> F("unexpected", "ok", Absent, <<>>, <<>>)
         [] id = "FORM_DUP"  -> F("ok", "ok", "Quiz", QuizItems,
                                  <<QuizResponses[1], QuizResponses[2],
                                    Response("r4", "a@x.com", <<Answer("q1", <<"Oslo">>)>>)>>)
         [] OTHER            -> F("404", "404", Absent, <<>>, <<>>)

\* the APIError raised for an HttpError status (or any other exception) by
\* FormsService.get_form / list_responses
FormsApiError(what, form_id, outcome) ==
    IF outcome = "404" THEN <<"Google Form not found (404)", what, form_id,
                              "(Service: forms, Status Code: 404)">>
    ELSE IF outcome = "403" THEN <<"Permission denied (403)", what, form_id,
                                   "(Service: forms, Status Code: 403)">>
    ELSE IF outcome = "unexpected" THEN <<"Unexpected error", what, form_id, "(Service: forms)">>
    ELSE <<"Failed", what, form_id, outcome, "(Service: forms, Status Code:", outcome, ")">>

\* FormsService.parse_form_and_responses: get_form then list_responses;
\* an APIError of either is re-raised.
ParseFormAndResponses(form_id) ==
    LET w == FormsWorld(form_id)
        getReq == <<[api |-> "forms.get", fileId |-> form_id, mimeType |-> Absent]>>
        listReq == <<[api |-> "forms.responses.list", fileId |-> form_id, mimeType |-> Absent]>>
    IN  IF w.get # "ok"
        THEN [exc |-> "APIError", msg |-> FormsApiError("getting form", form_id, w.get),
              structure |-> [title |-> Absent, items |-> <<>>], responses |-> <<>>,
              requests |-> getReq]
        ELSE IF w.list # "ok"
        THEN [exc |-> "APIError", msg |-> FormsApiError("listing responses", form_id, w.list),
              structure |-> [title |-> Absent, items |-> <<>>], responses |-> <<>>,
              requests |-> getReq \o listReq]
        ELSE [exc |-> "none", msg |-> <<>>,
              structure |-> [title |-> w.title, items |-> w.items],
              responses |-> w.responses, requests |-> getReq \o listReq]

\* FormsService.match_responses_to_emails(all_responses, [student_email])
\*   .get(student_email): the LAST response whose respondentEmail is the
\* student's (the dict entry is overwritten on every hit); 0 when none.
MatchResponsesToEmails(form_responses, student_email) ==
    LET hits == {j \in 1..Len(form_responses) :
                    /\ form_responses[j].respondentEmail # Absent
                    /\ form_responses[j].respondentEmail = student_email}
    IN  IF hits = {} THEN 0 ELSE CHOOSE j \in hits : \A k \in hits : k <= j

\* next((r for r in all_responses if r.get('responseId') == target), None):
\* index of the first response with that id, 0 when none
MatchResponseId(form_responses, target) ==
    LET hits == {j \in 1..Len(form_responses) : form_responses[j].responseId = target}
    IN  IF hits = {} THEN 0 ELSE CHOOSE j \in hits : \A k \in hits : j <= k

\* answers.get(question_id): index into the answers of a response, 0 if none
AnswerIndex(answers, qid) ==
    LET hits == {j \in 1..Len(answers) : answers[j].qid = qid}
    IN  IF hits = {} THEN 0 ELSE CHOOSE j \in hits : TRUE

\* FormsService.extract_student_form_data for one response
ExtractStudentFormData(structure, resp) ==
    [respondent_email |-> resp.respondentEmail,
     response_id |-> resp.responseId,
     questions |->
        [j \in 1..Len(structure.items) |->
            LET it == structure.items[j]
                qid == IF it.questionId # Absent THEN it.questionId ELSE it.itemId
                a == AnswerIndex(resp.answers, qid)
                student_answer == IF a = 0 THEN None ELSE Some(resp.answers[a].values)
                correct == IF it.correct = <<>> THEN None ELSE Some(it.correct)
            IN  [question_id |-> qid,
                 question_text |-> GetOr(it.title, ""),
                 student_answer |-> student_answer,
                 correct_answer |-> correct,
                 is_correct |->
                    IF Truthy(student_answer) /\ Truthy(correct)
                    THEN (IF student_answer.val = correct.val THEN "True" ELSE "False")
                    ELSE Absent]]]

\* str.strip() on a token sequence: drop leading and trailing newlines
RECURSIVE Strip(_)
Strip(t) ==
    IF t = <<>> THEN t
    ELSE IF t[1] = NL THEN Strip(Tail(t))
    ELSE IF t[Len(t)] = NL THEN Strip(SubSeq(t, 1, Len(t) - 1))
    ELSE t

\* ', '.join(values) of one-token values
CommaJoin(values) == Join(", ", [j \in 1..Len(values) |-> <<values[j]>>])

\* the text format_responses_for_llm emits for one question of one response
QuestionText(it, resp) ==
    LET question_id == IF it.questionId # Absent THEN it.questionId ELSE it.itemId
        a == AnswerIndex(resp.answers, question_id)
    IN  (IF it.title # Absent THEN <<"Q: ", it.title, NL>>
         ELSE <<"Q: ", "Question ID ", it.itemId, NL>>)
        \o (IF it.options # <<>> THEN <<"Options: ">> \o CommaJoin(it.options) \o <<NL>> ELSE <<>>)
        \o (IF it.correct # <<>> THEN <<"Correct Answer: ">> \o CommaJoin(it.correct) \o <<NL>>
            ELSE <<>>)
        \o (IF a # 0 THEN <<"A: ">> \o CommaJoin(resp.answers[a].values) \o <<NL, NL>>
            ELSE <<"A: (No answer provided)", NL, NL>>)

RECURSIVE Concat(_)
\* the concatenation of a sequence of token sequences
Concat(parts) == IF parts = <<>> THEN <<>> ELSE parts[1] \o Concat(Tail(parts))

\* formatted_text of one response
FormattedText(structure, resp) ==
    Strip(<<"Form Title: ", GetOr(structure.title, "Untitled Form"), NL,
            "Respondent: ", GetOr(resp.respondentEmail, "anonymous"), NL,
            "Response ID: ", GetOr(resp.responseId, "unknown"), NL, "---", NL, NL>>
          \o Concat([j \in 1..Len(structure.items) |-> QuestionText(structure.items[j], resp)]))

\* FormsService.format_responses_for_llm: one formatted_text per response,
\* in order; item['itemId'] raises KeyError when an item has no itemId.
FormatResponsesForLlm(structure, form_responses) ==
    IF \E j \in 1..Len(structure.items) : structure.items[j].itemId = Absent
    THEN [exc |-> "KeyError", texts |-> <<>>]
    ELSE [exc |-> "none",
          texts |-> [j \in 1..Len(form_responses) |-> FormattedText(structure, form_responses[j])]]

\* -------------------------------------------------------- Docs provider
\* Exception types that retry_on_exception is told to retry for Docs
RETRYABLE_DOCS_ERRORS == {"HttpError", "TimeoutError", "ConnectionError"}
\* max_attempts of the Docs decorator
DocsMaxAttempts == 3

\* The remote Docs service: what documents().get() answers for each document
\* id ("ok", an HTTP status, or "unexpected"), and the text of its text runs
DocsWorld(id) ==
    CASE id = "DOC1"      -> [get |-> "ok", text |-> <<"Dear", NL, "teacher", NL>>]
      [] id = "DOC_EMPTY" -> [get |-> "ok", text |-> <<>>]
      [] id = "DOC_403"   -> [get |-> "403", text |-> <<>>]
      [] id = "DOC_BOOM"  -> [get |-> "unexpected", text |-> <<>>]
      [] OTHER            -> [get |-> "404", text |-> <<>>]

\* lines 73-132: what leaves the body of get_document_content once the
\* request req met the remote answer w
DocumentOutcome(document_id, w, req) ==
    IF w.get = "ok"
    THEN [exc |-> "none", msg |-> <<>>, text |-> Strip(w.text), requests |-> req]
    ELSE IF w.get = "unexpected"
    THEN [exc |-> "ContentExtractionError",
          msg |-> <<"Unexpected error getting/parsing document", document_id, ":", "boom">>,
          text |-> <<>>, requests |-> req]
    ELSE IF w.get = "404"
    THEN [exc |-> "APIError",
          msg |-> <<"Google Document not found (404) with ID:", document_id,
                    "(Service: docs, Status Code: 404)">>,
          text |-> <<>>, requests |-> req]
    ELSE IF w.get = "403"
    THEN [exc |-> "APIError",
          msg |-> <<"Permission denied (403) accessing document", document_id,
                    "(Service: docs, Status Code: 403)">>,
          text |-> <<>>, requests |-> req]
    ELSE [exc |-> "APIError",
          msg |-> <<"Failed to get document", document_id, w.get,
                    "(Service: docs, Status Code:", w.get, ")">>,
          text |-> <<>>, requests |-> req]

\* DocsService.get_document_content as callers see it (decorated): the one
\* document-text reader DocsService defines
GetDocumentContent(document_id) ==
    RetryOnException(
        DocumentOutcome(document_id, DocsWorld(document_id),
                        <<[api |-> "documents.get", fileId |-> document_id, mimeType |-> Absent]>>),
        RETRYABLE_DOCS_ERRORS, DocsMaxAttempts)

\* self.docs_service.get_document_text(doc_id): DocsService defines
\* get_document_content only, so the attribute lookup raises AttributeError
\* before any request is made.
GetDocumentText(doc_id) ==
    [exc |-> "AttributeError",
     msg |-> <<"'DocsService' object has no attribute 'get_document_text'">>,
     text |-> <<>>, requests |-> <<>>]

\* ---------------------------------------------------------- submissions
\* A submission is the dict of the Classroom API.  courseWork and
\* assignment_attachments are optional keys; student_email and
\* form_response_data are keys the API never sends.
NoFormResponseData == [present |-> FALSE, data |-> <<>>]

Submission(id, state, attachments, courseWork, assignment_attachments, student_email) ==
    [id |-> id, userId |-> id, state |-> state, attachments |-> attachments,
     courseWork |-> courseWork, assignment_attachments |-> assignment_attachments,
     student_email |-> student_email, form_response_data |-> NoFormResponseData,
     assignedGrade |-> Absent]

\* an optional key holding a list of attachments
NoKey == [present |-> FALSE, list |-> <<>>]
Key(list) == [present |-> TRUE, list |-> list]

\* --------------------------------------------------------------- handlers
\* What a handler hands back: the (content, error) pair it returns, the
\* exception that leaves it ("none" when it returns), the submission as it
\* is afterwards, and the provider requests it caused.
Handled(content, error, exc, sub, requests) ==
    [content |-> content, error |-> error, exc |-> exc, sub |-> sub, requests |-> requests]

\* the exception types a handler reports as "Error accessing ..."
AccessErrors == {"APIError", "ContentExtractionError"}

\* 'except Exception' of handle_drive_file: the exception that still leaves
\* the handler, "none" since every Exception is caught
DriveUncaught(exc) == "none"

\* the UTF-8 text, else the Latin-1 text
Decoded(utf8, bytes) == IF utf8.ok THEN utf8.text ELSE DecodeLatin1(bytes)

\* lines 111-117: UTF-8, and Latin-1 when the bytes are not UTF-8
DecodeText(bytes) == Decoded(DecodeUtf8(bytes), bytes)

\* a variant that takes no payload for empty
NeverEmpty(file_bytes) == FALSE

\* not file_bytes
IsEmpty(file_bytes) == file_bytes = <<>>

\* a variant that takes every MIME type, also a missing one, for textual
AnyMimeIsText(mime_type) == TRUE

\* mime_type and mime_type.startswith("text/")
TextBased(mime_type) == mime_type # Absent /\ IsTextMime(mime_type)

\* lines 108-124: what handle_drive_file makes of the outcome d of
\* download_file_content
DriveFileOutcome(d, file_title, sub) ==
    IF d.exc \in AccessErrors
    THEN Handled(None, Some(<<"Error accessing Drive file '", file_title, "': ">> \o d.msg),
                 "none", sub, d.requests)
    ELSE IF d.exc # "none"
    THEN Handled(None, Some(<<"Unexpected error with Drive file '", file_title, "': ">> \o d.msg),
                 DriveUncaught(d.exc), sub, d.requests)
    ELSE IF IsEmpty(d.bytes)
    THEN Handled(None, Some(<<"File '", file_title, "' is empty.">>), "none", sub, d.requests)
    ELSE IF TextBased(d.mime)
    THEN Handled(Some(DecodeText(d.bytes)), None, "none", sub, d.requests)
    ELSE Handled(None,
                 Some(<<"File '", file_title, "' is not a text-based document (MIME: ", d.mime, ").">>),
                 "none", sub, d.requests)

\* handle_drive_file
HandleDriveFile(att, sub) ==
    IF att.driveFile.id = Absent
    THEN Handled(None, Some(<<"Drive file missing file ID.">>), "none", sub, <<>>)
    ELSE DriveFileOutcome(DownloadFileContent(att.driveFile.id),
                          GetOr(att.driveFile.title, "Untitled Drive File"), sub)

\* a variant that stores the form data under the key 'assignment_attachments':
\* one dict per response, none carrying a key the registry recognises
StoreAsAssignmentAttachments(sub, data) ==
    [sub EXCEPT !.assignment_attachments =
        [present |-> TRUE,
         list |-> [j \in 1..Len(data) |->
                     [VideoAtt EXCEPT !.keys = {"respondent_email", "response_id", "questions"}]]]]

\* submission['form_response_data'] = extracted_form_data
SetFormResponseData(sub, data) ==
    [sub EXCEPT !.form_response_data = [present |-> TRUE, data |-> data]]

\* 'except Exception' of handle_form
FormUncaught(exc) == "none"

\* a variant that looks at the response id of the response URL first
ResponseIdFirst(byEmail, all_responses, response_url) ==
    IF HasViewResponseId(response_url)
       /\ MatchResponseId(all_responses, TargetResponseId(response_url)) # 0
    THEN MatchResponseId(all_responses, TargetResponseId(response_url))
    ELSE byEmail

\* index of the response handle_form settles on, 0 when neither the student
\* email nor the response id of the response URL matches
FormMatchAfterEmail(byEmail, all_responses, response_url) ==
    IF byEmail # 0 THEN byEmail
    ELSE IF HasViewResponseId(response_url)
    THEN MatchResponseId(all_responses, TargetResponseId(response_url))
    ELSE 0

\* lines 144-152: by student email first, then by response id
FormMatch(all_responses, student_email, response_url) ==
    FormMatchAfterEmail(IF student_email # Absent
                        THEN MatchResponsesToEmails(all_responses, student_email)
                        ELSE 0,
                        all_responses, response_url)

\* lines 160-174: the candidates are stored in the submission and formatted
FormFormatted(f, form_title, stored, requests) ==
    IF f.exc # "none"
    THEN Handled(None, Some(<<"Unexpected error with form '", form_title, "': ", f.exc>>),
                 FormUncaught(f.exc), stored, requests)
    ELSE IF f.texts # <<>>
    THEN Handled(Some(Join(SEP, f.texts)), None, "none", stored, requests)
    ELSE Handled(None, Some(<<"Failed to format responses for form '", form_title, "'.">>),
                 "none", stored, requests)

\* lines 158-165
FormCandidates(structure, matching_responses, form_title, sub, requests) ==
    IF matching_responses = <<>>
    THEN Handled(None, Some(<<"No responses found or matched for form '", form_title, "'.">>),
                 "none", sub, requests)
    ELSE FormFormatted(FormatResponsesForLlm(structure, matching_responses), form_title,
                       SetFormResponseData(sub,
                           [j \in 1..Len(matching_responses) |->
                               ExtractStudentFormData(structure, matching_responses[j])]),
                       requests)

\* a variant without the fallback to all responses
NoFallback(all_responses, m) == IF m = 0 THEN <<>> ELSE <<all_responses[m]>>

\* a variant that takes all responses also when one matched
AlwaysAllResponses(all_responses, m) == all_responses

\* lines 153-157: the matched response, or all of them when none matched
MatchingResponses(all_responses, m) ==
    IF m = 0 THEN all_responses ELSE <<all_responses[m]>>

\* lines 140-178: what handle_form makes of the outcome p of
\* parse_form_and_responses
FormOutcome(p, response_url, form_title, sub) ==
    IF p.exc \in AccessErrors
    THEN Handled(None, Some(<<"Error accessing form '", form_title, "': ">> \o p.msg),
                 "none", sub, p.requests)
    ELSE FormCandidates(p.structure,
                        MatchingResponses(p.responses,
                                          FormMatch(p.responses, sub.student_email, response_url)),
                        form_title, sub, p.requests)

\* lines 134-138
FormWithId(form_id, att, sub) ==
    IF form_id = Absent
    THEN Handled(None, Some(<<"Could not parse Form ID from URL: ">> \o att.form.formUrl),
                 "none", sub, <<>>)
    ELSE FormOutcome(ParseFormAndResponses(form_id), att.form.responseUrl,
                     GetOr(att.form.title, "Untitled Form"), sub)

\* handle_form
HandleForm(att, sub) ==
    IF att.form.formUrl = <<>>
    THEN Handled(None, Some(<<"Form attachment has no URL.">>), "none", sub, <<>>)
    ELSE FormWithId(ParseFormId(att.form.formUrl), att, sub)

\* a variant of handle_link without its 'except Exception' clause
LinkPropagates(exc) == exc

\* 'except Exception' of handle_link
LinkUncaught(exc) == "none"

\* lines 192-203: what handle_link makes of the outcome g of get_document_text
DocOutcome(g, title, sub) ==
    IF g.exc \in AccessErrors
    THEN Handled(None, Some(<<"Error accessing Google Doc link '", title, "': ">> \o g.msg),
                 "none", sub, g.requests)
    ELSE IF g.exc # "none"
    THEN Handled(None,
                 Some(<<"Unexpected error processing Google Doc link '", title, "': ">> \o g.msg),
                 LinkUncaught(g.exc), sub, g.requests)
    ELSE IF g.text # <<>>
    THEN Handled(Some(g.text), None, "none", sub, g.requests)
    ELSE Handled(None, Some(<<"Google Doc link '", title, "' is empty or could not be read.">>),
                 "none", sub, g.requests)

\* a variant that tests for 'docs.google.com/document' only
IsDocumentUrl(url) ==
    \E j \in 1..(Len(url) - 1) : url[j] = "docs.google.com" /\ url[j + 1] = "document"

\* url and ('docs.google.com/document' in url or 'docs.google.com' in url)
IsDocsUrl(url) == url # <<>> /\ \E j \in 1..Len(url) : url[j] = "docs.google.com"

\* lines 187-204, with at the place of the first '/d/' of a Docs URL
LinkAt(at, url, title, sub) ==
    IF IsDocsUrl(url) /\ at = 0
    THEN Handled(None, Some(<<"Could not extract doc ID from link: ">> \o url), "none", sub, <<>>)
    ELSE IF IsDocsUrl(url) /\ url[at + 1] # ""
    THEN DocOutcome(GetDocumentText(url[at + 1]), title, sub)
    ELSE Handled(None, Some(<<"Link attachment '", title, "' not supported or not a Google Doc.">>),
                 "none", sub, <<>>)

\* handle_link
HandleLink(att, sub) ==
    LinkAt(FirstSlashDSlash(att.link.url), att.link.url,
           GetOr(att.link.title, "Untitled Link"), sub)

\* a variant with the registry in the order link, form, Drive file
LinkFormDrive(att) ==
    IF "link" \in att.keys THEN "link"
    ELSE IF "form" \in att.keys THEN "form"
    ELSE IF "driveFile" \in att.keys THEN "drive"
    ELSE "none"

\* the handler registry: the first predicate that holds picks the handler;
\* "none" when no predicate holds
HandlerFor(att) ==
    IF "driveFile" \in att.keys THEN "drive"
    ELSE IF "form" \in att.keys THEN "form"
    ELSE IF "link" \in att.keys THEN "link"
    ELSE "none"

\* Grader._describe_attachment
DescribeAttachment(att) ==
    IF "driveFile" \in att.keys
    THEN <<"DriveFile[", GetOr(att.driveFile.title, "untitled"), ":",
           GetOr(att.driveFile.id, "no-id"), "]">>
    ELSE IF "form" \in att.keys THEN <<"Form[", GetOr(att.form.title, "untitled"), "]">>
    ELSE IF "link" \in att.keys THEN <<"Link[", GetOr(att.link.title, "untitled"), "]">>
    ELSE <<"UnknownAttachmentType">>

\* handler(att) for the registry entry that matched
RunHandler(att, sub) ==
    IF HandlerFor(att) = "drive" THEN HandleDriveFile(att, sub)
    ELSE IF HandlerFor(att) = "form" THEN HandleForm(att, sub)
    ELSE HandleLink(att, sub)

\* str(error) inside the f-string of an error line
ErrorText(error) == IF error.some THEN error.val ELSE <<"None">>

\* a variant that leaves the descriptor out of the error line
UntaggedErrorLine(att, text) == <<"Attachment: ">> \o text

\* f"Attachment {self._describe_attachment(att)}: {error}"
ErrorLine(att, text) == <<"Attachment ">> \o DescribeAttachment(att) \o <<": ">> \o text

\* ------------------------------------------------------------ the inputs
\* The attachments a submission or an assignment may carry.
DocsUrl == <<"docs.google.com", "document", "d", "DOC1", "edit">>
FormUrl(id) == <<"docs.google.com", "forms", "d", id, "viewform">>
ResponseUrl(rid) ==
    [segs |-> <<"docs.google.com", "forms", "d", "e", "viewresponse">>,
     query |-> <<[k |-> "id", v |-> rid]>>]

TxtAtt == DriveAtt("f_txt", "essay.txt")
PngAtt == DriveAtt("f_png", "photo.png")
QuizAtt == FormAtt(FormUrl("FORM1"), ResponseUrl("r2"), "Quiz")
BlogAtt == LinkAtt(<<"example.com", "blog">>, "Blog")
\* a Classroom Material of kind driveFile nests the file one level deeper,
\* so att['driveFile'] has neither 'id' nor 'title'
SharedDriveMaterial == DriveAtt(Absent, Absent)

AttachmentPool ==
    {TxtAtt, PngAtt, QuizAtt, BlogAtt, VideoAtt,
     DriveAtt("f_latin", Absent),
     DriveAtt("f_dl403", "secret"),
     FormAtt(FormUrl("FORM_BAD"), NoResponseUrl, "Bad"),
     LinkAtt(DocsUrl, "My doc"),
     [keys |-> {"driveFile", "link"}, driveFile |-> [id |-> "f_png", title |-> "both"],
      form |-> NoForm, link |-> [url |-> DocsUrl, title |-> "both"]]}

\* the lists an assignment-level key may hold
MaterialLists == {<<>>, <<QuizAtt>>, <<SharedDriveMaterial, BlogAtt>>}
MaterialKeys == {NoKey} \cup {Key(l) : l \in MaterialLists}

StudentEmails == {Absent, "a@x.com", "c@x.com"}

\* the submissions _extract_submission_content is called on directly; the
\* optional keys vary freely where the code reads them (no student
\* attachment) and courseWork also where it does not
SubmissionPool ==
    {Submission("s1", "TURNED_IN", atts, cw, aa, em) :
        atts \in SeqsUpTo(AttachmentPool, MaxAtt) \ {<<>>},
        cw \in {NoKey, Key(<<QuizAtt>>)}, aa \in {NoKey}, em \in StudentEmails}
    \cup
    {Submission("s1", "TURNED_IN", <<>>, cw, aa, em) :
        cw \in MaterialKeys, aa \in MaterialKeys, em \in StudentEmails}

\* the attachments one handler is run on: every Drive file, with and without
\* a title; every form, with no response URL, one naming response r2 and
\* one naming no response of the form; links of every shape; attachments of
\* no or of two recognised kinds
HandlerAttachments ==
    {DriveAtt(id, title) : id \in DriveFileIds \cup {Absent}, title \in {"essay", Absent}}
    \cup {FormAtt(FormUrl(f), u, "Quiz") :
            f \in {"FORM1", "FORM_ONE", "FORM_NONE", "FORM_BAD", "FORM_403", "FORM_L500",
                   "FORM_BOOM", "FORM_DUP", "FORM_GONE"},
            u \in {NoResponseUrl, ResponseUrl("r2"), ResponseUrl("r9")}}
    \cup {FormAtt(<<>>, NoResponseUrl, "Quiz"),
          FormAtt(<<"forms.gle", "abc">>, ResponseUrl("r2"), Absent)}
    \cup {LinkAtt(url, title) :
            url \in {<<>>, <<"example.com", "blog">>, DocsUrl,
                     <<"docs.google.com", "document", "d", "DOC_EMPTY", "edit">>,
                     <<"docs.google.com", "document">>,
                     <<"docs.google.com", "presentation">>,
                     <<"docs.google.com", "document", "d", "">>,
                     <<"docs.google.com", "spreadsheets", "d", "SHEET1", "edit">>},
            title \in {"My doc", Absent}}
    \cup {VideoAtt,
          [keys |-> {"driveFile", "form"}, driveFile |-> [id |-> "f_empty", title |-> "both"],
           form |-> QuizAtt.form, link |-> NoLink],
          [keys |-> {"form", "link"}, driveFile |-> NoDriveFile,
           form |-> [QuizAtt.form EXCEPT !.formUrl = FormUrl("FORM_403")],
           link |-> [url |-> <<"example.com", "blog">>, title |-> "both"]],
          [keys |-> {"driveFile", "form", "link"},
           driveFile |-> [id |-> "f_png", title |-> "all"],
           form |-> QuizAtt.form, link |-> [url |-> DocsUrl, title |-> "all"]]}

HandlerEmails == {Absent, "a@x.com", "b@x.com", "c@x.com"}

\* the submissions with one attachment
HandlerInputs ==
    {Submission("s1", "TURNED_IN", <<att>>, NoKey, NoKey, em) :
        att \in HandlerAttachments, em \in HandlerEmails}

\* the assignments' materials that current_assignment may hold
NoAssignment == [set |-> FALSE, materials |-> <<>>]

\* ---------------------------------------------------------------- state
VARIABLES
    current_assignment, \* Grader.current_assignment; set FALSE: no such attribute
    subs,               \* the submission objects the running call works on
    pc,                 \* "idle", "loop" (the attachment loop), ...
    mode,               \* who called _extract_submission_content: "direct" / "process"
    ext,                \* the frame of _extract_submission_content
    before,             \* the submission as it was when the call began
    ret,                \* what the last _extract_submission_content call returned
    prev,               \* the call before it, when made on the same object
    calls,              \* handler dispatches of the running extraction, in order,
                        \* each with what the handler returned and requested
    requests,           \* provider requests of the running extraction, in order
    driveLog,           \* the calls made on DriveService directly, with their requests
    gemini_client,      \* Grader.gemini_client is set (TRUE) or None (FALSE)
    proc,               \* the frame of process_assignment
    processed_results,  \* process_assignment's processed_results
    returned,           \* what the last process_assignment call returned
    applied,            \* the last apply_grades_and_comments call and the Classroom
                        \* calls it made
    mailed,             \* the last email_feedback call and the send_email calls it made
    retry               \* the frame of a retry_on_exception wrapper

vars == <<current_assignment, subs, pc, mode, ext, before, ret, prev, calls, requests, driveLog,
          gemini_client, proc, processed_results, returned, applied, mailed, retry>>

\* the variables of a process_assignment run
procVars == <<proc, processed_results, returned>>

\* the variables of what a caller does with the results, and of the wrapper
laterVars == <<applied, mailed, retry>>

NoFrame == [k |-> 0, attachments |-> <<>>, i |-> 0, extraction_results |-> <<>>,
            error_details |-> <<>>]
NoReturn == [valid |-> FALSE, content |-> None, error |-> None, exc |-> "none"]
Return(content, error) == [valid |-> TRUE, content |-> content, error |-> error, exc |-> "none"]
Raised(exc) == [valid |-> TRUE, content |-> None, error |-> None, exc |-> exc]
NoPrev == [valid |-> FALSE, ret |-> NoReturn]
NoSubmission == Submission(Absent, Absent, <<>>, NoKey, NoKey, Absent)

\* ------------------------------------------ _extract_submission_content
\* a variant that appends the assignment-level attachments to the student's
\* attachments whether or not there are any
AlwaysAppendMaterials(submission, assignment) ==
    submission.attachments \o
        (IF submission.courseWork.present THEN submission.courseWork.list
         ELSE IF submission.assignment_attachments.present
         THEN submission.assignment_attachments.list
         ELSE IF assignment.set THEN assignment.materials
         ELSE <<>>)

\* lines 72-84: the student's attachments, and when there are none the
\* assignment-level ones from the first source that is present
MergedAttachments(submission, assignment) ==
    submission.attachments \o
        (IF submission.attachments # <<>> THEN <<>>
         ELSE IF submission.courseWork.present THEN submission.courseWork.list
         ELSE IF submission.assignment_attachments.present
         THEN submission.assignment_attachments.list
         ELSE IF assignment.set THEN assignment.materials
         ELSE <<>>)

\* a variant that returns an empty content instead of the error
EmptyContentReturn == Return(Some(<<>>), None)

\* line 88
NoAttachmentsReturn == Return(None, Some(<<"No attachments found.">>))

\* a variant that hands the error lines back next to the content
ReturnBoth(extraction_results, error_details) ==
    IF extraction_results # <<>>
    THEN Return(Some(Join(SEP, extraction_results)),
                IF error_details = <<>> THEN None ELSE Some(Join(NL, error_details)))
    ELSE Return(None,
                Some(<<"No supported attachment type found or content extracted. Details:", NL>>
                     \o Join(NL, error_details)))

\* a variant that returns the first fragment only
FirstFragmentOnly(extraction_results, error_details) ==
    IF extraction_results # <<>>
    THEN Return(Some(extraction_results[1]), None)
    ELSE Return(None,
                Some(<<"No supported attachment type found or content extracted. Details:", NL>>
                     \o Join(NL, error_details)))

\* lines 228-233
FinalReturn(extraction_results, error_details) ==
    IF extraction_results # <<>>
    THEN Return(Some(Join(SEP, extraction_results)), None)
    ELSE Return(None,
                Some(<<"No supported attachment type found or content extracted. Details:", NL>>
                     \o Join(NL, error_details)))

\* a variant that leaves the loop at the first attachment without content
StopAtFailure(i, n, h) == IF Truthy(h.content) THEN i + 1 ELSE n + 1

\* the for loop goes on to the next attachment whatever the handler returned
NextAttachment(i, n, h) == i + 1

\* lines 66-88, up to the first loop iteration: the frame of the call on
\* submission (the object subs[k]), or the early return
EnterExtract(submission, k, caller) ==
    \E attachments \in {MergedAttachments(submission, current_assignment)} :
        /\ before' = submission
        /\ calls' = <<>>
        /\ requests' = <<>>
        /\ mode' = caller
        /\ IF attachments = <<>>
           THEN /\ ret' = NoAttachmentsReturn
                /\ ext' = NoFrame
                /\ pc' = IF caller = "direct" THEN "idle" ELSE "extracted"
           ELSE /\ ret' = NoReturn
                /\ ext' = [k |-> k, attachments |-> attachments, i |-> 1,
                           extraction_results |-> <<>>, error_details |-> <<>>]
                /\ pc' = "loop"

\* a caller holding a new submission object calls
\* _extract_submission_content(submission)
ExtractBegin ==
    /\ pc = "idle"
    /\ subs = <<>>
    /\ ~returned.valid
    /\ \E s \in SubmissionPool :
        /\ subs' = <<s>>
        /\ prev' = NoPrev
        /\ EnterExtract(s, 1, "direct")
    /\ UNCHANGED <<current_assignment, driveLog, gemini_client, procVars, laterVars>>

\* a caller calls _extract_submission_content on a submission with one
\* attachment, which runs one handler on it
ExtractOne ==
    /\ pc = "idle"
    /\ subs = <<>>
    /\ ~returned.valid
    /\ \E s \in HandlerInputs :
        /\ subs' = <<s>>
        /\ prev' = NoPrev
        /\ EnterExtract(s, 1, "direct")
    /\ UNCHANGED <<current_assignment, driveLog, gemini_client, procVars, laterVars>>

\* the caller calls _extract_submission_content again on the object of the
\* call that just returned
ExtractAgain ==
    /\ pc = "idle"
    /\ mode = "direct"
    /\ ret.valid
    /\ ret.exc = "none"
    /\ Len(subs) = 1
    /\ prev' = [valid |-> TRUE, ret |-> ret]
    /\ EnterExtract(subs[1], 1, "direct")
    /\ UNCHANGED <<current_assignment, subs, driveLog, gemini_client, procVars, laterVars>>

\* lines 219-224: the frame once the handler of attachment att returned h
Recorded(frame, att, h) ==
    [frame EXCEPT
        !.i = NextAttachment(frame.i, Len(frame.attachments), h),
        !.extraction_results = IF Truthy(h.content) THEN Append(@, h.content.val) ELSE @,
        !.error_details =
            IF Truthy(h.content) THEN @ ELSE Append(@, ErrorLine(att, ErrorText(h.error)))]

\* a variant that leaves the loop at an attachment no predicate matched
StopAtUnknown(frame, att) ==
    [frame EXCEPT
        !.i = Len(frame.attachments) + 1,
        !.error_details = Append(@, ErrorLine(att, <<"No handler found.">>))]

\* lines 226-227: the frame once no predicate of the registry matched att
Unhandled(frame, att) ==
    [frame EXCEPT
        !.i = NextAttachment(frame.i, Len(frame.attachments),
                             Handled(None, None, "none", NoSubmission, <<>>)),
        !.error_details = Append(@, ErrorLine(att, <<"No handler found.">>))]

\* lines 215-227: one iteration of the loop over the attachments
ExtractStep ==
    /\ pc = "loop"
    /\ ext.i <= Len(ext.attachments)
    /\ IF HandlerFor(ext.attachments[ext.i]) = "none"
       THEN /\ ext' = Unhandled(ext, ext.attachments[ext.i])
            /\ UNCHANGED <<subs, calls, requests, ret, pc>>
       ELSE \E h \in {RunHandler(ext.attachments[ext.i], subs[ext.k])} :
            /\ calls' = Append(calls, [index |-> ext.i,
                                       handler |-> HandlerFor(ext.attachments[ext.i]),
                                       content |-> h.content, error |-> h.error,
                                       requests |-> h.requests])
            /\ requests' = requests \o h.requests
            /\ subs' = [subs EXCEPT ![ext.k] = h.sub]
            /\ IF h.exc # "none"
               THEN \* the exception leaves _extract_submission_content
                    /\ ret' = Raised(h.exc)
                    /\ ext' = NoFrame
                    /\ pc' = "idle"
               ELSE /\ ext' = Recorded(ext, ext.attachments[ext.i], h)
                    /\ UNCHANGED <<ret, pc>>
    /\ UNCHANGED <<current_assignment, mode, before, prev, driveLog, gemini_client, procVars, laterVars>>

\* lines 228-233: the loop is over
ExtractReturn ==
    /\ pc = "loop"
    /\ ext.i > Len(ext.attachments)
    /\ ret' = FinalReturn(ext.extraction_results, ext.error_details)
    /\ pc' = IF mode = "direct" THEN "idle" ELSE "extracted"
    /\ UNCHANGED <<current_assignment, subs, mode, ext, before, prev, calls, requests, driveLog,
                   gemini_client, procVars, laterVars>>

RECURSIVE LoopFrom(_, _)
\* lines 215-233 as a function: what the call returns from the loop frame
\* on, sub being the submission as the handlers so far left it
LoopFrom(frame, sub) ==
    IF frame.i > Len(frame.attachments)
    THEN FinalReturn(frame.extraction_results, frame.error_details)
    ELSE IF HandlerFor(frame.attachments[frame.i]) = "none"
    THEN LoopFrom(Unhandled(frame, frame.attachments[frame.i]), sub)
    ELSE LET h == RunHandler(frame.attachments[frame.i], sub)
         IN  IF h.exc # "none" THEN Raised(h.exc)
             ELSE LoopFrom(Recorded(frame, frame.attachments[frame.i], h), h.sub)

\* _extract_submission_content as a function of the submission and of the
\* Grader's current_assignment, the providers being the worlds above
ExtractionOf(submission, assignment) ==
    IF MergedAttachments(submission, assignment) = <<>>
    THEN NoAttachmentsReturn
    ELSE LoopFrom([k |-> 1, attachments |-> MergedAttachments(submission, assignment),
                   i |-> 1, extraction_results |-> <<>>, error_details |-> <<>>],
                  submission)

\* ----------------------------------------------------- process_assignment
\* the Classroom user profiles: an email address, none, or an APIError
ProfileWorld(user_id) ==
    LET P(exc, emailAddress, fullName, givenName) ==
            [exc |-> exc, emailAddress |-> emailAddress,
             name |-> [fullName |-> fullName, givenName |-> givenName, displayName |-> Absent]]
    IN CASE user_id = "u_a" -> P("none", "a@x.com", "Ann Lee", "Ann")
         [] user_id = "u_b" -> P("none", "b@x.com", Absent, "Bo")
         [] user_id = "u_noemail" -> P("none", Absent, Absent, Absent)
         [] OTHER -> P("APIError", Absent, Absent, Absent)

\* Grader._get_student_email: the address, or None (Absent) when the
\* profile has none or cannot be fetched
GetStudentEmail(user_id) ==
    LET profile == ProfileWorld(user_id)
    IN  IF profile.exc # "none" THEN Absent ELSE profile.emailAddress

\* the submissions list_submissions may list
Listed(id, user, state, grade, attachments, student_email) ==
    [Submission(id, state, attachments, NoKey, NoKey, student_email)
        EXCEPT !.userId = user, !.assignedGrade = grade]

ListedPool ==
    {Listed("s1", "u_a", "TURNED_IN", Absent, <<TxtAtt>>, Absent),
     Listed("s2", "u_noemail", "TURNED_IN", "70", <<PngAtt>>, Absent),
     Listed("s3", "u_403", "CREATED", Absent, <<>>, Absent),
     Listed("s4", "u_b", "RETURNED", "80", <<TxtAtt>>, Absent),
     Listed("s5", "u_a", "TURNED_IN", Absent,
            <<PngAtt, FormAtt(FormUrl("FORM1"), NoResponseUrl, "Quiz")>>, Absent),
     Listed("s6", "u_a", "TURNED_IN", Absent,
            <<FormAtt(FormUrl("FORM1"), NoResponseUrl, "Quiz")>>, "a@x.com"),
     Listed(Absent, "u_b", "TURNED_IN", "60", <<TxtAtt>>, Absent)}

\* what list_assignments and the search for coursework_id come to: an
\* exception, no assignment with that id, or the assignment
CourseworkOutcomes ==
    {[kind |-> "exception", title |-> Absent, materials |-> <<>>],
     [kind |-> "notfound", title |-> Absent, materials |-> <<>>]}
    \cup {[kind |-> "found", title |-> "Essay", materials |-> m] : m \in {<<>>, <<QuizAtt>>}}

\* what list_submissions comes to: an APIError, or the submissions
ListOutcomes ==
    {[exc |-> "APIError", list |-> <<>>]}
    \cup {[exc |-> "none", list |-> l] : l \in SeqsUpTo(ListedPool, MaxSubs)}

\* what gemini_client.generate_feedback comes to
FeedbackOutcomes == {"ok", "GradingError", "unexpected"}

\* a variant that takes a submission in any state
EveryStateProcessable(state) == TRUE

\* line 327: state in ['TURNED_IN', 'CREATED']
Processable(state) == state \in {"TURNED_IN", "CREATED"}

\* the frame of process_assignment: coursework is what the search for the
\* assignment came to, listing what list_submissions raised, and log keeps,
\* for each result appended, the provider requests made for its submission
NoProc == [i |-> 0, title |-> Absent, result |-> <<>>, log |-> <<>>,
           coursework |-> "none", listing |-> "none"]
NoReturned == [valid |-> FALSE, results |-> <<>>]
\* no apply_grades_and_comments call yet; no email_feedback call yet
NoApplied == [valid |-> FALSE, apply_grades |-> FALSE, post_comments |-> FALSE,
              grades |-> <<>>, calls |-> <<>>]
NoMailed == [valid |-> FALSE, calls |-> <<>>, emails_sent |-> 0, emails_failed |-> 0]

\* lines 311-323: the result record of a submission
NewResult(sub, title) ==
    [submission_id |-> sub.id, user_id |-> sub.userId,
     student_email |-> GetStudentEmail(sub.userId),
     content |-> None, feedback |-> None, error |-> None,
     state |-> sub.state, current_grade |-> sub.assignedGrade,
     assignment_title |-> title]

\* a variant that leaves the loop over the submissions at the first result
\* with an error
StopAtError(i, n, result) == IF Truthy(result.error) THEN n + 1 ELSE i + 1

\* the loop over the submissions goes on to the next one whatever became
\* of this one
NextSubmission(i, n, result) == i + 1

\* lines 276-300: fetch the assignment and list the submissions
ProcessBegin ==
    /\ pc = "idle"
    /\ subs = <<>>
    /\ ~returned.valid
    /\ \E cw \in CourseworkOutcomes, listed \in ListOutcomes :
        /\ current_assignment' =
              IF cw.kind = "found" THEN [set |-> TRUE, materials |-> cw.materials]
              ELSE current_assignment
        /\ processed_results' = <<>>
        /\ IF listed.exc # "none"
           THEN /\ returned' = [valid |-> TRUE, results |-> <<>>]
                /\ proc' = [NoProc EXCEPT !.coursework = cw.kind, !.listing = listed.exc]
                /\ UNCHANGED <<subs, pc, mode>>
           ELSE /\ subs' = listed.list
                /\ proc' = [i |-> 1, title |-> cw.title, result |-> <<>>, log |-> <<>>,
                            coursework |-> cw.kind, listing |-> "none"]
                /\ pc' = "process"
                /\ mode' = "process"
                /\ returned' = NoReturned
    /\ UNCHANGED <<ext, before, ret, prev, calls, requests, driveLog, gemini_client, laterVars>>

\* lines 327-331: the result of a submission that is not processable
Skipped(result) ==
    [result EXCEPT !.error =
        Some(<<"Submission not in processable state (", result.state, ")">>)]

\* a variant that hands the resolved email to the extraction with the
\* submission
WithResolvedEmail(sub, result) == [sub EXCEPT !.student_email = result.student_email]

\* line 333: the submission record is passed to _extract_submission_content
\* as it was listed; the resolved email is in result only
PassedSubmission(sub, result) == sub

\* lines 302-333: the next submission, up to the loop of its extraction
ProcessSubmission ==
    /\ pc = "process"
    /\ proc.i <= Len(subs)
    /\ \E result \in {NewResult(subs[proc.i], proc.title)} :
        IF ~Processable(subs[proc.i].state)
        THEN /\ processed_results' = Append(processed_results, Skipped(result))
             /\ proc' = [proc EXCEPT !.i = NextSubmission(@, Len(subs), Skipped(result)),
                                     !.result = <<>>, !.log = Append(@, <<>>)]
             /\ UNCHANGED <<subs, pc, mode, ext, before, ret, calls, requests>>
        ELSE /\ proc' = [proc EXCEPT !.result = <<result>>]
             /\ subs' = [subs EXCEPT ![proc.i] = PassedSubmission(@, result)]
             /\ EnterExtract(PassedSubmission(subs[proc.i], result), proc.i, "process")
             /\ UNCHANGED processed_results
    /\ UNCHANGED <<current_assignment, prev, driveLog, gemini_client, returned, laterVars>>

\* a variant that records no error when there is no client
SilentWithoutClient(result, r, client, outcome) ==
    IF Truthy(r.error)
    THEN [result EXCEPT !.error = Some(<<"Content extraction failed: ">> \o r.error.val)]
    ELSE IF ~client THEN [result EXCEPT !.content = r.content]
    ELSE IF outcome = "ok"
    THEN [result EXCEPT !.content = r.content, !.feedback = Some(<<"FEEDBACK">>)]
    ELSE [result EXCEPT !.content = r.content,
                        !.error = Some(<<"AI feedback generation failed: ", outcome>>)]

\* a variant that keeps the feedback and leaves the content out
FeedbackWithoutContent(result, r, client, outcome) ==
    IF Truthy(r.error)
    THEN [result EXCEPT !.error = Some(<<"Content extraction failed: ">> \o r.error.val)]
    ELSE IF ~client
    THEN [result EXCEPT !.content = r.content,
                        !.error = Some(<<"AI feedback skipped (no client)">>)]
    ELSE IF outcome = "ok" THEN [result EXCEPT !.feedback = Some(<<"FEEDBACK">>)]
    ELSE [result EXCEPT !.content = r.content,
                        !.error = Some(<<"AI feedback generation failed: ", outcome>>)]

\* lines 334-365: the result record once the extraction returned r and
\* generate_feedback came to outcome
Completed(result, r, client, outcome) ==
    IF Truthy(r.error)
    THEN [result EXCEPT !.error = Some(<<"Content extraction failed: ">> \o r.error.val)]
    ELSE IF ~Truthy(r.content)
    THEN [result EXCEPT !.error = Some(<<"No content could be extracted (unknown reason).">>)]
    ELSE IF ~client
    THEN [result EXCEPT !.content = r.content,
                        !.error = Some(<<"AI feedback skipped (no client)">>)]
    ELSE IF outcome = "ok"
    THEN [result EXCEPT !.content = r.content, !.feedback = Some(<<"FEEDBACK">>)]
    ELSE IF outcome = "GradingError"
    THEN [result EXCEPT !.content = r.content,
                        !.error = Some(<<"AI feedback generation failed: ", outcome>>)]
    ELSE [result EXCEPT !.content = r.content,
                        !.error = Some(<<"Unexpected AI feedback error: ", outcome>>)]

\* lines 334-365: the result of the submission whose extraction returned
ProcessExtracted ==
    /\ pc = "extracted"
    /\ \E outcome \in FeedbackOutcomes :
        \E done \in {Completed(proc.result[1], ret, gemini_client, outcome)} :
            /\ processed_results' = Append(processed_results, done)
            /\ proc' = [proc EXCEPT !.i = NextSubmission(@, Len(subs), done), !.result = <<>>,
                                    !.log = Append(@, requests)]
    /\ pc' = "process"
    /\ UNCHANGED <<current_assignment, subs, mode, ext, before, ret, prev, calls, requests,
                   driveLog, gemini_client, returned, laterVars>>

\* lines 367-368: every submission has been handled
ProcessReturn ==
    /\ pc = "process"
    /\ proc.i > Len(subs)
    /\ returned' = [valid |-> TRUE, results |-> processed_results]
    /\ pc' = "idle"
    /\ UNCHANGED <<current_assignment, subs, mode, ext, before, ret, prev, calls, requests,
                   driveLog, gemini_client, proc, processed_results, laterVars>>

\* ------------------------------------------- apply_grades_and_comments
\* needle in token, for the substrings the callers of process_assignment look
\* for and the tokens its error strings begin with
TokenHas(token, needle) ==
    \/ token = "Content extraction failed: " /\ needle = "extraction failed"
    \/ token = "AI feedback generation failed: " /\ needle = "AI feedback generation failed"
    \/ token = "AI feedback skipped (no client)"
       /\ needle \in {"AI feedback skipped", "feedback skipped"}

\* error and needle in error
ErrorHas(error, needle) ==
    Truthy(error) /\ \E p \in 1..Len(error.val) : TokenHas(error.val[p], needle)

\* a variant that skips no result
SkipsNothing(error) == FALSE

\* a variant that skips every result with an error
SkipsEveryError(error) == Truthy(error)

\* lines 397-400: should_skip_actions
ShouldSkipActions(error) ==
    \/ ErrorHas(error, "extraction failed")
    \/ ErrorHas(error, "AI feedback generation failed")
    \/ ErrorHas(error, "AI feedback skipped")

\* the grade patched when a result has neither 'grade' nor 'current_grade':
\* the token of the number 100
DefaultGrade == "100"

\* lines 409-413: grade being the record's 'grade' key as the caller set
\* it, Absent when the record has none
GradeOf(result, grade) ==
    IF grade # Absent THEN grade
    ELSE IF result.current_grade # Absent THEN result.current_grade
    ELSE DefaultGrade

\* lines 389-433: the Classroom calls made for result i of the list, each
\* logged with i; patch_grade and add_comment may fail, which is caught and
\* changes nothing else
ActionsFor(result, i, grade, apply_grades, post_comments) ==
    IF result.submission_id = Absent \/ ShouldSkipActions(result.error) THEN <<>>
    ELSE (IF apply_grades
          THEN <<[op |-> "patch_grade", i |-> i, submission_id |-> result.submission_id,
                  grade |-> GradeOf(result, grade), comment_text |-> <<>>]>>
          ELSE <<>>)
         \o (IF post_comments /\ Truthy(result.feedback)
             THEN <<[op |-> "add_comment", i |-> i, submission_id |-> result.submission_id,
                     grade |-> Absent,
                     comment_text |-> <<"[AI Generated Feedback]:", NL, NL>>
                                      \o result.feedback.val]>>
             ELSE <<>>)

\* the 'grade' keys of n result records: none, as process_assignment leaves
\* them, or one that the caller put on the first record
GradeKeys(n) == {[j \in 1..n |-> IF j = 1 THEN grade ELSE Absent] : grade \in {Absent, "90"}}

\* a caller calls apply_grades_and_comments with the results that
\* process_assignment returned, before any email is sent
ApplyGradesAndComments ==
    /\ pc = "idle"
    /\ returned.valid
    /\ ~applied.valid
    /\ ~mailed.valid
    /\ \E apply_grades, post_comments \in BOOLEAN, grades \in GradeKeys(Len(returned.results)) :
        applied' = [valid |-> TRUE, apply_grades |-> apply_grades,
                    post_comments |-> post_comments, grades |-> grades,
                    calls |-> Concat([j \in 1..Len(returned.results) |->
                                 ActionsFor(returned.results[j], j, grades[j], apply_grades,
                                            post_comments)])]
    /\ UNCHANGED <<current_assignment, subs, pc, mode, ext, before, ret, prev, calls, requests,
                   driveLog, gemini_client, procVars, mailed, retry>>

\* ---------------------------------------------------------- email_feedback
\* GmailService.send_email(to_email, subject, body, sender="me") called with
\* the keyword arguments keywords: a keyword it does not take raises
\* TypeError before its body runs
SendEmailOutcome(keywords) == IF keywords \subseteq {"sender"} THEN "ok" ELSE "TypeError"

\* lines 476-494: the student's name from the profile, else "Student"; the
\* name cache holds what this lookup returned before
StudentName(user_id) ==
    IF user_id = Absent \/ ProfileWorld(user_id).exc # "none" THEN "Student"
    ELSE IF ProfileWorld(user_id).name.fullName # Absent
    THEN ProfileWorld(user_id).name.fullName
    ELSE IF ProfileWorld(user_id).name.givenName # Absent
    THEN ProfileWorld(user_id).name.givenName
    ELSE GetOr(ProfileWorld(user_id).name.displayName, "Student")

\* lines 452-469: the result gets an email, "failed" when it counts in
\* emails_failed, or "skipped" when it counts nowhere
Mailing(result) ==
    IF result.student_email = Absent THEN "failed"
    ELSE IF ~Truthy(result.feedback)
    THEN (IF ErrorHas(result.error, "feedback skipped") THEN "skipped" ELSE "failed")
    ELSE IF ErrorHas(result.error, "extraction failed")
            \/ ErrorHas(result.error, "AI feedback generation failed")
    THEN "failed"
    ELSE "send"

\* lines 471-626: the send_email call for result i of the list, made with
\* is_html=True, logged with i, the subject line and what the call raised
SendFor(result, i) ==
    IF Mailing(result) # "send" THEN <<>>
    ELSE <<[to |-> result.student_email, i |-> i, submission_id |-> result.submission_id,
            exc |-> SendEmailOutcome({"is_html"}),
            subject |-> <<StudentName(result.user_id), ", your feedback for '",
                          GetOr(result.assignment_title, "Assignment"), "'">>]>>

\* a caller calls email_feedback with the results that process_assignment
\* returned
EmailFeedback ==
    /\ pc = "idle"
    /\ returned.valid
    /\ ~mailed.valid
    /\ mailed' =
          [valid |-> TRUE,
           calls |-> Concat([j \in 1..Len(returned.results) |-> SendFor(returned.results[j], j)]),
           emails_sent |->
               Cardinality({j \in 1..Len(returned.results) :
                   /\ Mailing(returned.results[j]) = "send"
                   /\ SendEmailOutcome({"is_html"}) = "ok"}),
           emails_failed |->
               Cardinality({j \in 1..Len(returned.results) :
                   \/ Mailing(returned.results[j]) = "failed"
                   \/ /\ Mailing(returned.results[j]) = "send"
                      /\ SendEmailOutcome({"is_html"}) # "ok"})]
    /\ UNCHANGED <<current_assignment, subs, pc, mode, ext, before, ret, prev, calls, requests,
                   driveLog, gemini_client, procVars, applied, retry>>

\* the caller is done with the objects and the result of the call that
\* returned; the Grader keeps its attributes
Release ==
    /\ pc = "idle"
    /\ subs # <<>> \/ returned.valid
    /\ subs' = <<>>
    /\ mode' = "direct"
    /\ ext' = NoFrame
    /\ before' = NoSubmission
    /\ ret' = NoReturn
    /\ prev' = NoPrev
    /\ calls' = <<>>
    /\ requests' = <<>>
    /\ proc' = NoProc
    /\ processed_results' = <<>>
    /\ returned' = NoReturned
    /\ applied' = NoApplied
    /\ mailed' = NoMailed
    /\ UNCHANGED <<current_assignment, pc, driveLog, gemini_client, retry>>

\* ------------------------------------------------- DriveService, direct
\* longest run of direct DriveService calls
MaxDriveCalls == 2

\* a caller calls DriveService.download_file_content(file_id)
DriveDownload ==
    /\ Len(driveLog) < MaxDriveCalls
    /\ \E file_id \in DriveFileIds :
        \E d \in {DownloadFileContent(file_id)}, g \in {GetFileMetadata(file_id)} :
            driveLog' = Append(driveLog,
                [op |-> "download_file_content", file_id |-> file_id,
                 original_mime_type |-> g.mimeType, metadata_exc |-> g.exc,
                 exc |-> d.exc, mime |-> d.mime, bytes |-> d.bytes,
                 requests |-> d.requests])
    /\ UNCHANGED <<current_assignment, subs, pc, mode, ext, before, ret, prev, calls, requests,
                   gemini_client, procVars, laterVars>>

\* a caller calls DriveService.get_file_metadata(file_id)
DriveGetMetadata ==
    /\ Len(driveLog) < MaxDriveCalls
    /\ \E file_id \in DriveFileIds :
        \E g \in {GetFileMetadata(file_id)} :
            driveLog' = Append(driveLog,
                [op |-> "get_file_metadata", file_id |-> file_id,
                 original_mime_type |-> g.mimeType, metadata_exc |-> g.exc,
                 exc |-> g.exc, mime |-> g.mimeType, bytes |-> <<>>,
                 requests |-> g.requests])
    /\ UNCHANGED <<current_assignment, subs, pc, mode, ext, before, ret, prev, calls, requests,
                   gemini_client, procVars, laterVars>>

\* ------------------------------------------------------ retry_on_exception
\* largest max_attempts a wrapper is built with
MaxRetryAttempts == 3

\* initial_delay (1.0 s) in tenths of a second, and backoff_factor
InitialDelay == 10
BackoffFactor == 2

\* random.uniform(-1, 1), by its extremes and its middle; jitter is 0.1
Jitters == {-1, 0, 1}

\* what one invocation of the wrapped function comes to: a value returned or
\* an exception raised
FuncOutcomes ==
    {[exc |-> "none", value |-> v] : v \in {"A", "B"}}
    \cup {[exc |-> e, value |-> Absent] : e \in {"HttpError", "TimeoutError", "ValueError"}}

\* the exception tuples a wrapper is built with; (Exception,) is the default
ExceptionTuples == {RETRYABLE_DRIVE_ERRORS, {"TimeoutError"}, {"Exception"}}

NoResult == [kind |-> "none", value |-> Absent]
NoRetry == [pc |-> "idle", exceptions |-> {}, max_attempts |-> 0, attempts |-> 0,
            delay |-> 0, invoked |-> <<>>, slept |-> <<>>, result |-> NoResult]

\* a variant in which the except clause takes every exception
CaughtWhatever(exc, exceptions) == TRUE

\* line 49, except exceptions: the exception is an instance of a listed
\* type, every exception being an instance of Exception
Caught(exc, exceptions) == exc \in exceptions \/ "Exception" \in exceptions

\* max(0, delay + delay * jitter * u)
WaitTime(delay, u) ==
    IF delay + (delay \div 10) * u < 0 THEN 0 ELSE delay + (delay \div 10) * u

\* lines 43-68: the frame after one iteration of the while loop, in which
\* the function came to outcome and random.uniform gave u
Attempted(frame, outcome, u) ==
    IF outcome.exc = "none"
    THEN [frame EXCEPT !.attempts = @ + 1, !.invoked = Append(@, outcome), !.pc = "done",
                       !.result = [kind |-> "return", value |-> outcome.value]]
    ELSE IF ~Caught(outcome.exc, frame.exceptions) \/ frame.attempts + 1 >= frame.max_attempts
    THEN [frame EXCEPT !.attempts = @ + 1, !.invoked = Append(@, outcome), !.pc = "done",
                       !.result = [kind |-> "raise", value |-> outcome.exc]]
    ELSE [frame EXCEPT !.attempts = @ + 1, !.invoked = Append(@, outcome),
                       !.slept = Append(@, WaitTime(frame.delay, u)),
                       !.delay = @ * BackoffFactor]

\* a caller calls a function wrapped by
\* retry_on_exception(exceptions, max_attempts)
RetryCall ==
    /\ retry.pc = "idle"
    /\ \E exceptions \in ExceptionTuples, max_attempts \in 0..MaxRetryAttempts :
        retry' = [NoRetry EXCEPT !.pc = "loop", !.exceptions = exceptions,
                                 !.max_attempts = max_attempts, !.delay = InitialDelay]
    /\ UNCHANGED <<current_assignment, subs, pc, mode, ext, before, ret, prev, calls, requests,
                   driveLog, gemini_client, procVars, applied, mailed>>

\* lines 43-68: one iteration of the while loop
RetryAttempt ==
    /\ retry.pc = "loop"
    /\ retry.attempts < retry.max_attempts
    /\ \E outcome \in FuncOutcomes, u \in Jitters : retry' = Attempted(retry, outcome, u)
    /\ UNCHANGED <<current_assignment, subs, pc, mode, ext, before, ret, prev, calls, requests,
                   driveLog, gemini_client, procVars, applied, mailed>>

\* line 71: the while condition is false
RetryExhausted ==
    /\ retry.pc = "loop"
    /\ retry.attempts >= retry.max_attempts
    /\ retry' = [retry EXCEPT !.pc = "done",
                              !.result = [kind |-> "raise", value |-> "RuntimeError"]]
    /\ UNCHANGED <<current_assignment, subs, pc, mode, ext, before, ret, prev, calls, requests,
                   driveLog, gemini_client, procVars, applied, mailed>>

\* the caller has the value or the exception of the call
RetryRelease ==
    /\ retry.pc = "done"
    /\ retry' = NoRetry
    /\ UNCHANGED <<current_assignment, subs, pc, mode, ext, before, ret, prev, calls, requests,
                   driveLog, gemini_client, procVars, applied, mailed>>

\* ------------------------------------------------------ specifications
Init ==
    /\ current_assignment = NoAssignment
    /\ subs = <<>>
    /\ pc = "idle"
    /\ mode = "direct"
    /\ ext = NoFrame
    /\ before = NoSubmission
    /\ ret = NoReturn
    /\ prev = NoPrev
    /\ calls = <<>>
    /\ requests = <<>>
    /\ driveLog = <<>>
    /\ gemini_client \in BOOLEAN
    /\ proc = NoProc
    /\ processed_results = <<>>
    /\ returned = NoReturned
    /\ applied = NoApplied
    /\ mailed = NoMailed
    /\ retry = NoRetry

Next ==
    \/ ExtractBegin
    \/ ExtractAgain
    \/ ExtractStep
    \/ ExtractReturn
    \/ ProcessBegin
    \/ ProcessSubmission
    \/ ProcessExtracted
    \/ ProcessReturn
    \/ Release

\* the Grader: extraction calls and assignment runs
Spec == Init /\ [][Next]_vars

DriveNext ==
    \/ DriveDownload
    \/ DriveGetMetadata

\* the Drive provider on its own
DriveSpec == Init /\ [][DriveNext]_vars

HandlerNext ==
    \/ ExtractOne
    \/ ExtractStep
    \/ ExtractReturn
    \/ Release

\* one handler at a time: extraction calls on submissions with one attachment
HandlerSpec == Init /\ [][HandlerNext]_vars

AssignmentNext ==
    \/ ProcessBegin
    \/ ProcessSubmission
    \/ ExtractStep
    \/ ExtractReturn
    \/ ProcessExtracted
    \/ ProcessReturn
    \/ ApplyGradesAndComments
    \/ EmailFeedback
    \/ Release

\* an assignment run and what its caller does with the results
AssignmentSpec == Init /\ [][AssignmentNext]_vars

RetryNext ==
    \/ RetryCall
    \/ RetryAttempt
    \/ RetryExhausted
    \/ RetryRelease

\* the wrapper on its own; a call that is in its loop goes on running
RetrySpec ==
    Init /\ [][RetryNext]_vars /\ WF_vars(RetryAttempt) /\ WF_vars(RetryExhausted)

\* ------------------------------------------------------------ properties
\* a call of _extract_submission_content has returned to its caller
ExtractReturned == ret.valid /\ pc \in {"idle", "extracted"}

\* the merged attachment list of the call that returned
ReturnedAttachments == MergedAttachments(before, current_assignment)

\* C1: whenever _extract_submission_content returns, exactly one component
\* of the pair is populated: content is a non-empty string and error is None,
\* or content is None and error is a non-empty string.
C1_ExactlyOnePopulated ==
    ExtractReturned =>
        /\ ret.exc = "none"
        /\ \/ (ret.content.some /\ ret.content.val # <<>> /\ ~ret.error.some)
           \/ (~ret.content.some /\ ret.error.some /\ ret.error.val # <<>>)

\* a call over two attachments, one failing and one succeeding, has returned
C1_Witness ==
    /\ ExtractReturned
    /\ ReturnedAttachments = <<DriveAtt("f_dl403", "secret"), TxtAtt>>
    /\ ret.content.some

C3_OneTaggedLinePerAttachment ==
    LET atts == ReturnedAttachments
        e == ret.error.val
        breaks == {p \in 1..Len(e) : e[p] = NL}
        start(j) == 1 + CHOOSE p \in breaks : Cardinality({q \in breaks : q < p}) = j - 1
        tag(j) == <<"Attachment ">> \o DescribeAttachment(atts[j]) \o <<": ">>
    IN  (ExtractReturned /\ atts # <<>> /\ ~ret.content.some) =>
            /\ ret.error.some
            /\ Cardinality(breaks) = Len(atts)
            /\ \A j \in 1..Len(atts) :
                /\ start(j) + Len(tag(j)) - 1 <= Len(e)
                /\ SubSeq(e, start(j), start(j) + Len(tag(j)) - 1) = tag(j)

\* two failures of different kinds: an image and a video
C3_Witness ==
    /\ ExtractReturned
    /\ ReturnedAttachments = <<PngAtt, VideoAtt>>
    /\ ret.error.some

\* C4: when the merged list is empty the call returns
\* (None, "No attachments found.") without having dispatched a handler or
\* issued a provider request, and nothing was raised.
C4_NoAttachments ==
    (ExtractReturned /\ ReturnedAttachments = <<>>) =>
        /\ ret.content = None
        /\ ret.error = Some(<<"No attachments found.">>)
        /\ ret.exc = "none"
        /\ calls = <<>>
        /\ requests = <<>>

\* the student attached nothing and the courseWork key holds no material
C4_Witness ==
    /\ ExtractReturned
    /\ before.attachments = <<>>
    /\ before.courseWork = Key(<<>>)
    /\ before.assignment_attachments = Key(<<QuizAtt>>)
    /\ ret.error.some

\* C5: no exception leaves _extract_submission_content; the call returns a
\* pair whatever the providers raised.
C5_NothingPropagates ==
    /\ ret.exc = "none"
    /\ ExtractReturned /\ ReturnedAttachments # <<>> =>
          \A j \in 1..Len(ReturnedAttachments) :
              HandlerFor(ReturnedAttachments[j]) # "none" =>
                  \E c \in 1..Len(calls) : calls[c].index = j

\* a permission error of Drive and an AttributeError of the document reader
C5_Witness ==
    /\ ExtractReturned
    /\ ReturnedAttachments = <<DriveAtt("f_dl403", "secret"), LinkAtt(DocsUrl, "My doc")>>
    /\ ret.error.some
    /\ Len(requests) = 2

\* C6: the handlers of the attachments run once each, in list order,
\* whatever the earlier ones returned, and process_assignment reports every
\* listed submission, in order, whatever the earlier extractions returned.
C6_SiblingsAlwaysProcessed ==
    /\ \A c \in 1..Len(calls) :
          /\ calls[c].handler = HandlerFor(ext.attachments[calls[c].index])
          /\ c > 1 => calls[c - 1].index < calls[c].index
    /\ (ExtractReturned /\ ReturnedAttachments # <<>>) =>
          \A j \in 1..Len(ReturnedAttachments) :
              Cardinality({c \in 1..Len(calls) : calls[c].index = j})
                  = IF HandlerFor(ReturnedAttachments[j]) = "none" THEN 0 ELSE 1
    /\ returned.valid =>
          /\ Len(returned.results) = Len(subs)
          /\ \A i \in 1..Len(subs) :
                /\ returned.results[i].submission_id = subs[i].id
                /\ Processable(subs[i].state) =>
                      returned.results[i].error.some \/ returned.results[i].feedback.some

\* a run over two submissions: the extraction of the first failed, and in
\* the second the quiz was read after the image had failed
C6_Witness ==
    /\ returned.valid
    /\ Len(returned.results) = 2
    /\ returned.results[1].submission_id = "s2"
    /\ returned.results[1].error.some
    /\ returned.results[2].submission_id = "s5"
    /\ returned.results[2].content.some
    /\ Len(calls) = 2

\* C7: a second call on the same submission object, the providers answering
\* as before, returns the pair the first call returned.
C7_SecondCallSameResult ==
    (prev.valid /\ ExtractReturned) => ret = prev.ret

\* the second call on a submission whose quiz was read by the first
C7_Witness ==
    /\ prev.valid
    /\ ExtractReturned
    /\ before.form_response_data.present
    /\ ret.content.some

\* C8: when _extract_submission_content returns, the submission it was
\* given has the keys and values it had when the call began.
C8_SubmissionUnchanged ==
    /\ (pc = "idle" /\ mode = "direct" /\ ret.valid) => subs[1] = before
    /\ pc = "extracted" => subs[proc.i] = before

\* C9: what a call of _extract_submission_content made by a caller of the
\* Grader returns for a submission is what a Grader that never processed an
\* assignment returns for it: no earlier call has a part in the result.
C9_NoStateAcrossCalls ==
    (pc = "idle" /\ mode = "direct" /\ ret.valid) => ret = ExtractionOf(before, NoAssignment)

\* the requests of one kind that a logged call issued
RequestsOf(entry, api) == SelectSeq(entry.requests, LAMBDA r : r.api = api)

\* the logged download_file_content calls whose metadata lookup succeeded
Downloads ==
    {j \in 1..Len(driveLog) :
        driveLog[j].op = "download_file_content" /\ driveLog[j].metadata_exc = "none"}

\* C10 as stated: a Workspace type (application/vnd.google-apps...) is
\* exported and never downloaded, any other type is downloaded and never
\* exported, and exactly one of the two requests is issued.
C10_ExactlyOneRequest ==
    \A j \in Downloads :
        LET exports == Len(RequestsOf(driveLog[j], "files.export_media"))
            raws == Len(RequestsOf(driveLog[j], "files.get_media"))
            mime == driveLog[j].original_mime_type
        IN  /\ exports + raws = 1
            /\ (mime # Absent /\ IsGoogleApps(mime)) => exports = 1
            /\ ~(mime # Absent /\ IsGoogleApps(mime)) => raws = 1

\* C10, amended: document, spreadsheet and presentation are exported (to
\* text/plain or text/csv) and never downloaded; any other
\* application/vnd.google-apps type raises ContentExtractionError with
\* neither request issued; every other type, and a missing one, is
\* downloaded and never exported.
C10_ExportDownloadOrRefuse ==
    \A j \in Downloads :
        LET exported == RequestsOf(driveLog[j], "files.export_media")
            raws == Len(RequestsOf(driveLog[j], "files.get_media"))
            mime == driveLog[j].original_mime_type
        IN  IF mime \in {"application/vnd.google-apps.document",
                         "application/vnd.google-apps.spreadsheet",
                         "application/vnd.google-apps.presentation"}
            THEN /\ Len(exported) = 1
                 /\ raws = 0
                 /\ exported[1].mimeType \in {"text/plain", "text/csv"}
            ELSE IF mime # Absent /\ IsGoogleApps(mime)
            THEN /\ Len(exported) = 0
                 /\ raws = 0
                 /\ driveLog[j].exc = "ContentExtractionError"
            ELSE /\ Len(exported) = 0
                 /\ raws = 1

\* a form was refused and a spreadsheet exported
C10_Witness ==
    /\ Len(driveLog) = 2
    /\ driveLog[1].op = "download_file_content"
    /\ driveLog[1].file_id = "f_form"
    /\ driveLog[1].exc = "ContentExtractionError"
    /\ driveLog[2].op = "download_file_content"
    /\ driveLog[2].file_id = "f_sheet"
    /\ driveLog[2].exc = "none"

\* the attachment a logged handler call was made on
CallAttachment(c) == ext.attachments[calls[c].index]

\* the logged calls of handle_drive_file whose download or export succeeded
DriveDelivered ==
    {c \in 1..Len(calls) :
        /\ calls[c].handler = "drive"
        /\ CallAttachment(c).driveFile.id # Absent
        /\ DownloadFileContent(CallAttachment(c).driveFile.id).exc = "none"}

\* C11: when the downloaded or exported payload has zero bytes the Drive
\* handler returns (None, "File '<title>' is empty."), whatever the content
\* MIME type; no Drive handler call returns an empty string as content.
C11_EmptyPayloadIsAnError ==
    /\ \A c \in DriveDelivered :
          DriveWorld(CallAttachment(c).driveFile.id).bytes = <<>> =>
              /\ calls[c].content = None
              /\ calls[c].error =
                    Some(<<"File '", GetOr(CallAttachment(c).driveFile.title, "Untitled Drive File"),
                           "' is empty.">>)
    /\ \A c \in 1..Len(calls) :
          calls[c].handler = "drive" => ~(calls[c].content.some /\ calls[c].content.val = <<>>)

\* an empty image has been handled
C11_Witness ==
    /\ ExtractReturned
    /\ Len(calls) = 1
    /\ CallAttachment(1) = DriveAtt("f_emptypng", "essay")
    /\ calls[1].error.some

\* C12: when the payload is not empty and its content MIME type is missing
\* or does not start with "text/", the Drive handler returns no content and
\* the error "File '<title>' is not a text-based document (MIME: <type>).".
C12_NonTextIsNeverContent ==
    \A c \in DriveDelivered :
        LET d == DownloadFileContent(CallAttachment(c).driveFile.id)
        IN  (d.bytes # <<>> /\ (d.mime = Absent \/ ~IsTextMime(d.mime))) =>
                /\ calls[c].content = None
                /\ calls[c].error =
                      Some(<<"File '", GetOr(CallAttachment(c).driveFile.title, "Untitled Drive File"),
                             "' is not a text-based document (MIME: ", d.mime, ").">>)

\* a file whose metadata carries no MIME type has been handled
C12_Witness ==
    /\ ExtractReturned
    /\ Len(calls) = 1
    /\ CallAttachment(1) = DriveAtt("f_nomime", Absent)
    /\ calls[1].error.some

\* the form a logged call of handle_form fetched, as the Forms service holds it
CallForm(c) == FormsWorld(ParseFormId(CallAttachment(c).form.formUrl))

\* the logged calls of handle_form that fetched a form and its responses,
\* every item of the form carrying its itemId as the Forms API sends it
FormFetched ==
    {c \in 1..Len(calls) :
        /\ calls[c].handler = "form"
        /\ CallAttachment(c).form.formUrl # <<>>
        /\ ParseFormId(CallAttachment(c).form.formUrl) # Absent
        /\ CallForm(c).get = "ok"
        /\ CallForm(c).list = "ok"
        /\ \A j \in 1..Len(CallForm(c).items) : CallForm(c).items[j].itemId # Absent}

\* the responses of the fetched form whose respondent is the student
EmailMatches(c) ==
    {j \in 1..Len(CallForm(c).responses) :
        /\ before.student_email # Absent
        /\ CallForm(c).responses[j].respondentEmail = before.student_email}

\* the responses of the fetched form that the response URL names
UrlMatches(c) ==
    {j \in 1..Len(CallForm(c).responses) :
        /\ HasViewResponseId(CallAttachment(c).form.responseUrl)
        /\ CallForm(c).responses[j].responseId
              = TargetResponseId(CallAttachment(c).form.responseUrl)}

\* the transcript of the j-th response of the fetched form
Transcript(c, j) ==
    FormattedText([title |-> CallForm(c).title, items |-> CallForm(c).items],
                  CallForm(c).responses[j])

\* C13: when a response carries the student's email, the transcript returned
\* is that of a response matched by email, also when the response URL names
\* another response; the response the URL names is used only when no
\* response carries the student's email.
C13_EmailBeforeResponseId ==
    \A c \in FormFetched :
        /\ EmailMatches(c) # {} =>
              /\ \E j \in EmailMatches(c) : calls[c].content = Some(Transcript(c, j))
              /\ \A k \in UrlMatches(c) \ EmailMatches(c) :
                    calls[c].content # Some(Transcript(c, k))
        /\ (EmailMatches(c) = {} /\ UrlMatches(c) # {}) =>
              \E k \in UrlMatches(c) : calls[c].content = Some(Transcript(c, k))

\* the student is the respondent of r1 and the response URL names r2
C13_Witness ==
    /\ ExtractReturned
    /\ Len(calls) = 1
    /\ CallAttachment(1) = FormAtt(FormUrl("FORM1"), ResponseUrl("r2"), "Quiz")
    /\ before.student_email = "a@x.com"
    /\ calls[1].content = Some(Transcript(1, 1))

\* C14: when the form has responses and neither the student's email nor the
\* response id of the response URL matches one, the handler returns no error
\* and the transcripts of all responses, in order, joined by the separator.
C14_FallbackToAllResponses ==
    \A c \in FormFetched :
        (CallForm(c).responses # <<>> /\ EmailMatches(c) = {} /\ UrlMatches(c) = {}) =>
            /\ calls[c].error = None
            /\ calls[c].content =
                  Some(Join(SEP, [j \in 1..Len(CallForm(c).responses) |-> Transcript(c, j)]))

\* a student who answered nothing and a response URL naming no response
C14_Witness ==
    /\ ExtractReturned
    /\ Len(calls) = 1
    /\ CallAttachment(1) = FormAtt(FormUrl("FORM1"), ResponseUrl("r9"), "Quiz")
    /\ before.student_email = "c@x.com"
    /\ calls[1].content.some

\* C15: when a response carries the student's email, the transcript returned
\* holds one response only, that of the student: one respondent line, naming
\* the student, one response id, and no separator.
C15_SingleResponseOfTheStudent ==
    \A c \in FormFetched :
        EmailMatches(c) # {} =>
            LET t == calls[c].content.val
                respondents == {p \in 1..Len(t) : t[p] = "Respondent: "}
                ids == {p \in 1..Len(t) : t[p] = "Response ID: "}
            IN  /\ calls[c].content.some
                /\ Cardinality(respondents) = 1
                /\ \A p \in respondents : t[p + 1] = before.student_email
                /\ Cardinality(ids) = 1
                /\ \A p \in ids :
                      \E j \in EmailMatches(c) : t[p + 1] = CallForm(c).responses[j].responseId
                /\ \A p \in 1..Len(t) : t[p] # SEP

\* the student is one of three respondents of the form
C15_Witness ==
    /\ ExtractReturned
    /\ Len(calls) = 1
    /\ CallAttachment(1) = FormAtt(FormUrl("FORM_DUP"), NoResponseUrl, "Quiz")
    /\ before.student_email = "b@x.com"
    /\ calls[1].content.some

\* the keys of an attachment that the registry recognises
Recognised(att) == att.keys \cap {"driveFile", "form", "link"}

\* C16: the handler run on an attachment is that of the first of driveFile,
\* form, link among its keys; an attachment with several of these keys has
\* that one handler run once, only that handler's requests are issued, and
\* the result of the call is that handler's result alone, also when it failed.
C16_FirstMatchWins ==
    /\ \A c \in 1..Len(calls) :
          /\ calls[c].handler =
                IF "driveFile" \in CallAttachment(c).keys THEN "drive"
                ELSE IF "form" \in CallAttachment(c).keys THEN "form"
                ELSE "link"
          /\ \A q \in 1..Len(calls[c].requests) :
                calls[c].requests[q].api \in
                    IF calls[c].handler = "drive"
                    THEN {"files.get", "files.export_media", "files.get_media"}
                    ELSE IF calls[c].handler = "form"
                    THEN {"forms.get", "forms.responses.list"}
                    ELSE {}
    /\ (ExtractReturned /\ Len(ext.attachments) = 1 /\ Recognised(ext.attachments[1]) # {}) =>
          /\ Len(calls) = 1
          /\ requests = calls[1].requests
          /\ IF calls[1].content.some /\ calls[1].content.val # <<>>
             THEN ret.content = calls[1].content /\ ret.error = None
             ELSE /\ ret.content = None
                  /\ ret.error =
                        Some(<<"No supported attachment type found or content extracted. Details:",
                               NL, "Attachment ">>
                             \o DescribeAttachment(ext.attachments[1]) \o <<": ">>
                             \o calls[1].error.val)

\* an attachment that is an empty Drive file and a quiz with responses: the
\* Drive handler failed and the quiz was not read
C16_Witness ==
    /\ ExtractReturned
    /\ Len(ext.attachments) = 1
    /\ ext.attachments[1].keys = {"driveFile", "form"}
    /\ Len(calls) = 1
    /\ calls[1].handler = "drive"
    /\ ret.error.some

\* C17: an attachment with none of the keys driveFile, form, link has no
\* handler run and no request issued for it, adds the one error line
\* "Attachment UnknownAttachmentType: No handler found.", and every other
\* attachment of the list still has its handler run once, a success among
\* them making the call a success.
C17_UnknownAttachment ==
    LET atts == ext.attachments
        unknown == {j \in 1..Len(atts) : Recognised(atts[j]) = {}}
        e == ret.error.val
        breaks == {p \in 1..Len(e) : e[p] = NL}
        start(j) == 1 + CHOOSE p \in breaks : Cardinality({q \in breaks : q < p}) = j - 1
        line == <<"Attachment ", "UnknownAttachmentType", ": ", "No handler found.">>
    IN  /\ \A c \in 1..Len(calls) : calls[c].index \notin unknown
        /\ (ExtractReturned /\ atts # <<>> /\ unknown # {}) =>
              /\ \A j \in (1..Len(atts)) \ unknown :
                    Cardinality({c \in 1..Len(calls) : calls[c].index = j}) = 1
              /\ requests = Concat([c \in 1..Len(calls) |-> calls[c].requests])
              /\ (\E c \in 1..Len(calls) : calls[c].content.some /\ calls[c].content.val # <<>>)
                    => ret.content.some
              /\ ~ret.content.some =>
                    /\ Cardinality(breaks) = Len(atts)
                    /\ \A j \in unknown :
                          /\ SubSeq(e, start(j), start(j) + 3) = line
                          /\ start(j) + 4 <= Len(e) => e[start(j) + 4] = NL

\* a video followed by a text file: the text file was read
C17_Witness ==
    /\ ExtractReturned
    /\ ext.attachments = <<VideoAtt, TxtAtt>>
    /\ Len(calls) = 1
    /\ ret.content.some

\* the logged calls of handle_link on a docs.google.com URL with a document
\* id after its first '/d/'
DocLinks ==
    {c \in 1..Len(calls) :
        /\ calls[c].handler = "link"
        /\ \E j \in 1..Len(CallAttachment(c).link.url) :
              CallAttachment(c).link.url[j] = "docs.google.com"
        /\ FirstSlashDSlash(CallAttachment(c).link.url) # 0
        /\ CallAttachment(c).link.url[FirstSlashDSlash(CallAttachment(c).link.url) + 1] # ""}

\* C18: when the URL of a link is a Google Docs URL with a document id and
\* the document-text reader of DocsService returns non-empty text for that
\* id, the link handler returns (that text, None).
C18_DocLinkReturnsText ==
    \A c \in DocLinks :
        LET url == CallAttachment(c).link.url
            doc == GetDocumentContent(url[FirstSlashDSlash(url) + 1])
        IN  (doc.exc = "none" /\ doc.text # <<>>) =>
                /\ calls[c].content = Some(doc.text)
                /\ calls[c].error = None

\* C19 as stated: for every link that is not a Google Docs URL with a
\* document id (a missing URL and a docs.google.com URL without '/d/'
\* among them) the handler issues no request and returns the error "Link
\* attachment '<title>' not supported or not a Google Doc.".
C19_NotSupportedNamesTitle ==
    \A c \in 1..Len(calls) :
        (calls[c].handler = "link" /\ c \notin DocLinks) =>
            /\ calls[c].requests = <<>>
            /\ calls[c].content = None
            /\ calls[c].error =
                  Some(<<"Link attachment '", GetOr(CallAttachment(c).link.title, "Untitled Link"),
                         "' not supported or not a Google Doc.">>)

\* C19, amended: such a link never has a request issued and never yields
\* content; a URL that contains docs.google.com but no '/d/' followed by
\* another segment yields "Could not extract doc ID from link: <url>", which
\* names the URL and not the title; a missing URL, a URL without
\* docs.google.com and one whose document id is empty yield "Link attachment
\* '<title>' not supported or not a Google Doc.".
C19_NotSupportedOrNoDocId ==
    \A c \in 1..Len(calls) :
        (calls[c].handler = "link" /\ c \notin DocLinks) =>
            LET url == CallAttachment(c).link.url
                docs == \E j \in 1..Len(url) : url[j] = "docs.google.com"
            IN  /\ calls[c].requests = <<>>
                /\ calls[c].content = None
                /\ calls[c].error =
                      IF docs /\ FirstSlashDSlash(url) = 0
                      THEN Some(<<"Could not extract doc ID from link: ">> \o url)
                      ELSE Some(<<"Link attachment '",
                                  GetOr(CallAttachment(c).link.title, "Untitled Link"),
                                  "' not supported or not a Google Doc.">>)

\* a link to docs.google.com/presentation, which has no '/d/', has been
\* handled
C19_Witness ==
    /\ ExtractReturned
    /\ Len(calls) = 1
    /\ calls[1].handler = "link"
    /\ CallAttachment(1).link.url = <<"docs.google.com", "presentation">>
    /\ calls[1].error = Some(<<"Could not extract doc ID from link: ",
                               "docs.google.com", "presentation">>)

\* C20: the list the call works through is the student's attachments in
\* their order; when there are none it is the assignment-level attachments
\* in their order (of the courseWork key, else of the assignment_attachments
\* key, else of the Grader's current assignment); assignment-level
\* attachments are never handled next to a student's attachment.
C20_MaterialsOnlyWhenNoStudentAttachment ==
    LET materials ==
            IF before.courseWork.present THEN before.courseWork.list
            ELSE IF before.assignment_attachments.present
            THEN before.assignment_attachments.list
            ELSE IF current_assignment.set THEN current_assignment.materials
            ELSE <<>>
        expected == IF before.attachments # <<>> THEN before.attachments ELSE materials
    IN  /\ pc = "loop" => ext.attachments = expected
        /\ ExtractReturned =>
              /\ expected = <<>> => (ret.error = Some(<<"No attachments found.">>) /\ calls = <<>>)
              /\ expected # <<>> =>
                    /\ ext.attachments = expected
                    /\ \A c \in 1..Len(calls) : calls[c].index <= Len(expected)
                    /\ \A j \in 1..Len(expected) :
                          Recognised(expected[j]) # {} =>
                              \E c \in 1..Len(calls) : calls[c].index = j

\* the student attached a text file and an image; the quiz of the courseWork
\* key was not handled
C20_Witness ==
    /\ ExtractReturned
    /\ before.attachments = <<TxtAtt, PngAtt>>
    /\ before.courseWork = Key(<<QuizAtt>>)
    /\ ext.attachments = <<TxtAtt, PngAtt>>
    /\ Len(calls) = 2


\* C21: in process_assignment only a submission whose state is TURNED_IN or
\* CREATED reaches the extraction; the result of a submission in any other
\* state has the error "Submission not in processable state (<state>)", no
\* content and no feedback, and no provider request was made for it
C21_OnlyTurnedInOrCreated ==
    /\ (mode = "process" /\ pc \in {"loop", "extracted"}) =>
          subs[proc.i].state \in {"TURNED_IN", "CREATED"}
    /\ \A j \in 1..Len(processed_results) :
          subs[j].state \notin {"TURNED_IN", "CREATED"} =>
              /\ processed_results[j].error =
                    Some(<<"Submission not in processable state (", subs[j].state, ")">>)
              /\ processed_results[j].content = None
              /\ processed_results[j].feedback = None
              /\ proc.log[j] = <<>>

\* a run returned in which a RETURNED submission with a text file was skipped
\* and a TURNED_IN one had its file downloaded
C21_Witness ==
    /\ returned.valid
    /\ \E j, k \in 1..Len(processed_results) :
          /\ subs[j].state = "RETURNED"
          /\ subs[j].attachments # <<>>
          /\ processed_results[j].error =
                Some(<<"Submission not in processable state (", "RETURNED", ")">>)
          /\ subs[k].state = "TURNED_IN"
          /\ proc.log[k] # <<>>

\* C22: process_assignment ends early only when list_submissions fails, and
\* then it returns an empty list with nothing processed; once the submissions
\* are listed, a failed search for the assignment, a failed profile fetch, a
\* failed extraction or a failed feedback generation leave the run going, and
\* it returns only after every listed submission has its result
C22_OnlyListingAborts ==
    /\ proc.listing # "none" =>
          /\ returned.valid /\ returned.results = <<>>
          /\ subs = <<>> /\ processed_results = <<>>
          /\ calls = <<>> /\ requests = <<>>
    /\ (mode = "process" /\ pc = "idle") =>
          /\ returned.valid
          /\ Len(returned.results) = Len(subs)
          /\ \A j \in 1..Len(subs) : returned.results[j].submission_id = subs[j].id
    /\ mode = "process" => ret.exc = "none"

\* a run returned in which list_assignments failed, the first submission had
\* neither a profile nor content, and the second one, whose feedback
\* generation failed, was processed all the same
C22_Witness ==
    /\ returned.valid
    /\ proc.coursework = "exception"
    /\ Len(returned.results) = 2
    /\ ProfileWorld(subs[1].userId).exc # "none"
    /\ returned.results[1].student_email = Absent
    /\ returned.results[1].error =
          Some(<<"Content extraction failed: ", "No attachments found.">>)
    /\ Truthy(returned.results[2].content)
    /\ returned.results[2].error = Some(<<"AI feedback generation failed: ", "GradingError">>)

\* C23: a call of a function wrapped by retry_on_exception(exceptions,
\* max_attempts) invokes the function at most max_attempts times; every
\* invocation but the last raised a listed exception, so the first return
\* ends the call with that value and an exception that is not listed leaves
\* at once; a listed exception leaves only from invocation max_attempts, and
\* it is the last one raised; and a call in its loop always comes to an end
C23_BoundedRetries ==
    /\ [](/\ Len(retry.invoked) <= retry.max_attempts
          /\ \A i \in 1..(Len(retry.invoked) - 1) :
                /\ retry.invoked[i].exc # "none"
                /\ retry.invoked[i].exc \in retry.exceptions \/ "Exception" \in retry.exceptions
          /\ Len(retry.slept) = (IF retry.invoked = <<>> THEN 0
                                 ELSE Len(retry.invoked) - (IF retry.pc = "done" THEN 1 ELSE 0))
          /\ (retry.pc = "done" /\ retry.invoked = <<>>) =>
                retry.max_attempts = 0 /\ retry.result.kind = "raise"
          /\ (retry.pc = "done" /\ retry.invoked # <<>>) =>
                IF retry.invoked[Len(retry.invoked)].exc = "none"
                THEN retry.result = [kind |-> "return",
                                     value |-> retry.invoked[Len(retry.invoked)].value]
                ELSE /\ retry.result = [kind |-> "raise",
                                        value |-> retry.invoked[Len(retry.invoked)].exc]
                     /\ (retry.invoked[Len(retry.invoked)].exc \in retry.exceptions
                         \/ "Exception" \in retry.exceptions) =>
                            Len(retry.invoked) = retry.max_attempts)
    /\ (retry.pc = "loop" ~> retry.pc = "done")

\* a call with max_attempts 3 whose function raised a listed exception three
\* times, with two sleeps in between, and that raised the last one
C23_Witness ==
    /\ retry.pc = "done"
    /\ retry.max_attempts = 3
    /\ retry.exceptions = {"HttpError", "TimeoutError", "ConnectionError"}
    /\ Len(retry.invoked) = 3
    /\ Len(retry.slept) = 2
    /\ retry.invoked[2].exc = "HttpError"
    /\ retry.result = [kind |-> "raise", value |-> "TimeoutError"]

\* C24 as stated: when the files().get() request of get_file_metadata, or
\* the export or download request of download_file_content, fails with an
\* HttpError on every attempt, the request is issued DriveMaxAttempts times
\* and the call then raises APIError
C24_FailedRequestIsRetried ==
    \A j \in 1..Len(driveLog) :
        /\ (/\ driveLog[j].op = "get_file_metadata"
            /\ DriveWorld(driveLog[j].file_id).meta \in {"403", "404", "500"}) =>
                /\ driveLog[j].exc = "APIError"
                /\ Len(RequestsOf(driveLog[j], "files.get")) = DriveMaxAttempts
        /\ (/\ driveLog[j].op = "download_file_content"
            /\ DriveWorld(driveLog[j].file_id).meta = "ok"
            /\ DriveWorld(driveLog[j].file_id).media \in {"403", "404", "500"}) =>
                /\ driveLog[j].exc = "APIError"
                /\ Len(RequestsOf(driveLog[j], "files.export_media"))
                   + Len(RequestsOf(driveLog[j], "files.get_media")) = DriveMaxAttempts

\* C25 as stated: the candidates being the responses that carry the
\* student's email, else the response the response URL names, else all
\* responses, whenever more than one candidate remains the content is the
\* transcripts of all the candidates, in response-list order, joined by the
\* separator
C25_AllCandidatesJoined ==
    \A c \in FormFetched :
        LET candidates == IF EmailMatches(c) # {} THEN EmailMatches(c)
                          ELSE IF UrlMatches(c) # {} THEN UrlMatches(c)
                          ELSE 1..Len(CallForm(c).responses)
            inOrder == SelectSeq([j \in 1..Len(CallForm(c).responses) |-> j],
                                 LAMBDA j : j \in candidates)
        IN  Cardinality(candidates) > 1 =>
                calls[c].content =
                    Some(Join(SEP, [p \in 1..Len(inOrder) |-> Transcript(c, inOrder[p])]))

\* C26: apply_grades_and_comments makes no patch_grade and no add_comment
\* call for a result whose error reports a failed extraction, a failed
\* feedback generation or skipped feedback, and it goes on to the results
\* after it: with apply_grades, every other result that has a submission id
\* gets its call
C26_NoActionAfterFailure ==
    applied.valid =>
        /\ \A c \in 1..Len(applied.calls) :
              LET error == returned.results[applied.calls[c].i].error
              IN  error.some =>
                      error.val[1] \notin {"Content extraction failed: ",
                                           "AI feedback generation failed: ",
                                           "AI feedback skipped (no client)"}
        /\ \A j \in 1..Len(returned.results) :
              (/\ applied.apply_grades
               /\ returned.results[j].submission_id # Absent
               /\ returned.results[j].error.some =>
                     returned.results[j].error.val[1]
                         \notin {"Content extraction failed: ",
                                 "AI feedback generation failed: ",
                                 "AI feedback skipped (no client)"}) =>
                  \E c \in 1..Len(applied.calls) : applied.calls[c].i = j

\* grades and comments were applied to two results: the first, whose
\* extraction failed, got no call, and the second got its grade and its
\* comment
C26_Witness ==
    /\ applied.valid /\ applied.apply_grades /\ applied.post_comments
    /\ Len(returned.results) = 2
    /\ returned.results[1].submission_id # Absent
    /\ returned.results[1].error.some
    /\ returned.results[1].error.val[1] = "Content extraction failed: "
    /\ returned.results[2].feedback.some
    /\ Len(applied.calls) = 2
    /\ applied.calls[1].i = 2 /\ applied.calls[1].op = "patch_grade"
    /\ applied.calls[2].i = 2 /\ applied.calls[2].op = "add_comment"

\* C27: with apply_grades, patch_grade is called exactly once for each result
\* that has a submission id and whose error is none of the three skipped
\* kinds, a result whose submission was not in a processable state included,
\* and for no other result; the grade is the record's 'grade', else its
\* current_grade, else 100.  (The error "No content could be extracted" is
\* treated alike; no extraction returns neither content nor error, so no
\* result of process_assignment carries it.)
C27_PatchedOncePerKeptResult ==
    (applied.valid /\ applied.apply_grades) =>
        \A j \in 1..Len(returned.results) :
            LET result == returned.results[j]
                patches == {c \in 1..Len(applied.calls) :
                               applied.calls[c].op = "patch_grade" /\ applied.calls[c].i = j}
                kept == /\ result.submission_id # Absent
                        /\ \/ result.error = None
                           \/ result.error.val[1] \in
                                {"Submission not in processable state (",
                                 "No content could be extracted (unknown reason).",
                                 "Unexpected AI feedback error: "}
            IN  IF kept
                THEN /\ Cardinality(patches) = 1
                     /\ \A c \in patches :
                           /\ applied.calls[c].submission_id = result.submission_id
                           /\ applied.calls[c].grade =
                                 (IF applied.grades[j] # Absent THEN applied.grades[j]
                                  ELSE IF result.current_grade # Absent
                                  THEN result.current_grade
                                  ELSE "100")
                ELSE patches = {}

\* grades were applied to two results: the first, of a RETURNED submission
\* that was not processed and has the grade 80, was patched with 80, and the
\* second, with feedback and no grade at all, with 100
C27_Witness ==
    /\ applied.valid /\ applied.apply_grades
    /\ applied.grades = <<Absent, Absent>>
    /\ returned.results[1].error =
          Some(<<"Submission not in processable state (", "RETURNED", ")">>)
    /\ returned.results[1].content = None
    /\ returned.results[2].feedback.some
    /\ returned.results[2].current_grade = Absent
    /\ \E c, d \in 1..Len(applied.calls) :
          /\ applied.calls[c].op = "patch_grade" /\ applied.calls[c].i = 1
          /\ applied.calls[c].grade = "80"
          /\ applied.calls[d].op = "patch_grade" /\ applied.calls[d].i = 2
          /\ applied.calls[d].grade = "100"

\* C28: process_assignment leaves the resolved email out of the submission
\* records: each still carries the student_email it was listed with, or
\* none.  So the form handler matches by email only for a submission listed
\* with a student_email; for one listed without it, the response the URL
\* names is used, else all responses, also when the profile's email is that
\* of a respondent
C28_ResolvedEmailStaysInResult ==
    mode = "process" =>
        /\ \A j \in 1..Len(subs) :
              \E l \in ListedPool :
                  /\ l.id = subs[j].id /\ l.userId = subs[j].userId
                  /\ l.student_email = subs[j].student_email
        /\ pc \in {"loop", "extracted"} =>
              \A c \in FormFetched :
                  LET responses == CallForm(c).responses
                      listed == CHOOSE l \in ListedPool :
                                    l.id = subs[proc.i].id /\ l.userId = subs[proc.i].userId
                      byEmail == {j \in 1..Len(responses) :
                                     /\ listed.student_email # Absent
                                     /\ responses[j].respondentEmail = listed.student_email}
                  IN  /\ byEmail # {} =>
                            \E j \in byEmail : calls[c].content = Some(Transcript(c, j))
                      /\ (byEmail = {} /\ UrlMatches(c) # {}) =>
                            \E j \in UrlMatches(c) : calls[c].content = Some(Transcript(c, j))
                      /\ (byEmail = {} /\ UrlMatches(c) = {} /\ responses # <<>>) =>
                            calls[c].content =
                                Some(Join(SEP, [j \in 1..Len(responses) |-> Transcript(c, j)]))

\* the extraction of a submission listed without student_email returned: the
\* profile gave a@x.com, the respondent of r1, and the form handler returned
\* the transcripts of all three responses
C28_Witness ==
    /\ mode = "process" /\ pc = "extracted"
    /\ subs[proc.i].student_email = Absent
    /\ proc.result[1].student_email = "a@x.com"
    /\ \E c \in FormFetched :
          /\ Len(CallForm(c).responses) = 3
          /\ CallForm(c).responses[1].respondentEmail = "a@x.com"
          /\ calls[c].content =
                Some(Join(SEP, [j \in 1..3 |-> Transcript(c, j)]))

\* C29: without an AI client, no result has feedback, and the results whose
\* content was extracted are those with content set and the error
\* "AI feedback skipped (no client)": every processable submission whose
\* extraction did not fail is one of them.  For such a result
\* apply_grades_and_comments makes no patch_grade and no add_comment call,
\* and email_feedback makes no send_email call
C29_NoClientNoDownstreamAction ==
    ~gemini_client =>
        /\ \A j \in 1..Len(processed_results) :
              /\ processed_results[j].feedback = None
              /\ processed_results[j].content.some <=>
                    processed_results[j].error = Some(<<"AI feedback skipped (no client)">>)
              /\ (/\ subs[j].state \in {"TURNED_IN", "CREATED"}
                  /\ ~(/\ processed_results[j].error.some
                       /\ processed_results[j].error.val[1] = "Content extraction failed: ")) =>
                     processed_results[j].content.some
        /\ \A c \in 1..Len(applied.calls) : ~returned.results[applied.calls[c].i].content.some
        /\ \A c \in 1..Len(mailed.calls) : ~returned.results[mailed.calls[c].i].content.some

\* without a client, a run over a text file and a RETURNED submission came
\* back, grades and comments were applied and the feedback mailed: the only
\* call made is the patch of the RETURNED submission
C29_Witness ==
    /\ ~gemini_client
    /\ applied.valid /\ applied.apply_grades /\ applied.post_comments
    /\ mailed.valid
    /\ Len(returned.results) = 2
    /\ returned.results[1].content.some
    /\ returned.results[1].student_email = "a@x.com"
    /\ returned.results[1].error = Some(<<"AI feedback skipped (no client)">>)
    /\ returned.results[2].state = "RETURNED"
    /\ Len(applied.calls) = 1 /\ applied.calls[1].i = 2
    /\ mailed.calls = <<>>

\* C30: when the submissions were listed, process_assignment returns one
\* result per listed submission, in listing order, each carrying the id, the
\* user and the state of its submission; content is set only in a result
\* whose error reports no extraction failure, and feedback only in a result
\* whose content is set
C30_OneResultPerSubmission ==
    (returned.valid /\ proc.listing = "none") =>
        /\ Len(returned.results) = Len(subs)
        /\ \A j \in 1..Len(subs) :
              LET result == returned.results[j]
              IN  /\ result.submission_id = subs[j].id
                  /\ result.user_id = subs[j].userId
                  /\ result.state = subs[j].state
                  /\ result.current_grade = subs[j].assignedGrade
                  /\ result.content.some =>
                        ~(/\ result.error.some
                          /\ result.error.val[1] \in
                                {"Content extraction failed: ",
                                 "No content could be extracted (unknown reason).",
                                 "Submission not in processable state ("})
                  /\ result.feedback.some => result.content.some

\* a run over two submissions returned: the first result, of a RETURNED
\* submission, has neither content nor feedback, and the second has both
C30_Witness ==
    /\ returned.valid /\ proc.listing = "none"
    /\ Len(subs) = 2
    /\ subs[1].id = "s4" /\ subs[2].id = "s1"
    /\ returned.results[1].submission_id = "s4"
    /\ returned.results[1].content = None /\ returned.results[1].feedback = None
    /\ returned.results[2].submission_id = "s1"
    /\ returned.results[2].content.some /\ returned.results[2].feedback.some
    /\ returned.results[2].error = None
=============================================================================
